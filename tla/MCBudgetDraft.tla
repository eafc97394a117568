---------------------------- MODULE MCBudgetDraft ----------------------------
EXTENDS BudgetDraft, TLC
CONSTANTS suites, drops

Plain(fixed, tab, price) ==
    [fixed |-> fixed, tab |-> tab, price |-> price, shown |-> TRUE, spend |-> TRUE,
     over |-> [fixed |-> NULL, tab |-> NULL, price |-> NULL]]

\* suites: a hotel account by its override for the event.  drops: a fixed-cost
\* account that an override may make a standard one.
MCFinance ==
    (suites :> {[Plain(FALSE, NULL, 0) EXCEPT
                    !.over = [fixed |-> TRUE, tab |-> "HOTEL", price |-> 1]]})
    @@ (drops :> {Plain(TRUE, NULL, 2),
                  [Plain(TRUE, NULL, 2) EXCEPT
                    !.over = [fixed |-> FALSE, tab |-> NULL, price |-> NULL]]})
MCAccounts == {suites, drops}
MCRooms == {suites}
Symmetry == Permutations(Requests)
==============================================================================
