------------------------ MODULE MCEventOrganization ------------------------
EXTENDS EventOrganization, TLC

\* No access, view only, edit only: the rows the two boxes of a form can post,
\* the row with both boxes left out (it adds to each case, never a case).
MCGrants == {{}, {"view"}, {"edit"}}

=============================================================================
