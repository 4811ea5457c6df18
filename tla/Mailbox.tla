------------------------------- MODULE Mailbox -------------------------------
(***************************************************************************)
(* What a background worker's request slot promises its caller: one        *)
(* request may wait, a newer request replaces it, the worker takes the     *)
(* waiting request whole, and a request that waits is taken while the      *)
(* worker runs.  crates/channel/src/slot.rs implements it with a mutex, a  *)
(* condition variable and a flag (module Slot); the file-list and diff     *)
(* workers of crates/pipeline are its users (module Review).               *)
(***************************************************************************)
CONSTANTS Requests,     \* the values a caller may put
          None          \* no request, not a member of Requests

VARIABLES waiting,      \* the request nobody has taken yet
          working,      \* the request the worker is running
          open          \* the worker still takes requests

mailboxVars == <<waiting, working, open>>

MailboxInit ==
    /\ waiting = None
    /\ working = None
    /\ open = TRUE

\* A newer request replaces the waiting one; the running one is unaffected.
Put(r) ==
    /\ waiting' = r
    /\ UNCHANGED working
    /\ open' = open

Take ==
    /\ open
    /\ working = None
    /\ waiting # None
    /\ working' = waiting
    /\ waiting' = None
    /\ open' = open

\* The job ends; a job that reports failure ends the worker with it.
Finish ==
    /\ working # None
    /\ working' = None
    /\ open' => open
    /\ UNCHANGED waiting

\* An idle worker may leave once its slot is gone, never with a request waiting.
Leave ==
    /\ open
    /\ working = None
    /\ waiting = None
    /\ open' = FALSE
    /\ UNCHANGED <<waiting, working>>

MailboxNext == (\E r \in Requests: Put(r)) \/ Take \/ Finish \/ Leave

MailboxSpec == MailboxInit /\ [][MailboxNext]_mailboxVars

\* A waiting request is taken or replaced while the worker takes requests.
Served == \A r \in Requests: waiting = r ~> waiting # r \/ ~open
==============================================================================
