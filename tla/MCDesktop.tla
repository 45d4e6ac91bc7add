----------------------------- MODULE MCDesktop -----------------------------
(***************************************************************************)
(* The desktop with its engine processes, and the call ledger's file with  *)
(* the engine processes that write it, one at a time.  Every call starts   *)
(* at time 0 and lives one unit.                                           *)
(***************************************************************************)
EXTENDS LedgerFile, Session

MCCreated == [c \in Calls |-> 0]
MCExpires == [c \in Calls |-> 1]

VARIABLE part

FilePart    == part = "file" /\ Next /\ UNCHANGED <<sessionVars, part>>
SessionPart == part = "session" /\ SessionNext /\ UNCHANGED <<vars, part>>

MCVars == <<vars, sessionVars, part>>

MCInit == part \in {"file", "session"} /\ Init /\ SessionInit

MCNext == FilePart \/ SessionPart

\* A part of the fairness SessionFairSpec states: the timers fire.
FairSession == WF_sessionVars(part = "session" /\ Timeout)

MCSpec == MCInit /\ [][MCNext]_MCVars /\ FairSession

\* Every variable of both parts has its type.
DesktopTypeOK == FileTypeOK /\ SessionTypeOK
=============================================================================
