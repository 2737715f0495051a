----------------------------- MODULE RegexClients -----------------------------
(***************************************************************************)
(* The clients of the library: what uses a compiled pattern with pcre_exec,  *)
(* with pcre_dfa_exec, or for the messages of FSRegex.                       *)
(***************************************************************************)
EXTENDS FSRegex, RegexDfa

clientVars == <<vars, findVars, dfaVars>>

InitClients == Init /\ InitFind /\ InitDfa

NextClients ==
  \/ NextFind /\ answer = Unasked /\ UNCHANGED dfaVars
  \/ (CallDfa \/ RestartDfa) /\ UNCHANGED findVars

\* A call of the library, and the loop over the matches, run to their end.
SpecClients == /\ InitClients /\ [][NextClients]_clientVars
               /\ WF_vars(Execute) /\ WF_<<vars, findVars>>(Enumerate)
=============================================================================
