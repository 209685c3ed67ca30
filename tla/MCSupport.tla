----------------------------- MODULE MCSupport -----------------------------
(***************************************************************************)
(* Instances of Support for TLC.                                           *)
(***************************************************************************)
EXTENDS Support, TLC

CONSTANTS t1, t2, ada, bob, sue, tom, open, another, ask, answer, close, look, mine, queue

Request(kind, thread, by) == [kind |-> kind, thread |-> thread, by |-> by]

\* A conversation, the thread of another customer, and lists of both threads.
MCCallOf ==
  open :> Request("create", t1, ada) @@
  ask :> Request("message", t1, ada) @@
  answer :> Request("reply", t1, sue) @@
  close :> Request("close", t1, tom) @@
  look :> Request("view", t1, sue) @@
  another :> Request("create", t2, bob) @@
  mine :> Request("list", t1, ada) @@
  queue :> Request("list", t1, sue)

List(status, limit, offset) ==
  [status |-> status, search |-> Threads, limit |-> limit, offset |-> offset]

\* All that is the customer's, and the second page of the open threads.
MCListOf == mine :> List("any", 2, 0) @@ queue :> List("open", 1, 1)

\* To bound the run, a behaviour has either more of the conversation than its opening
\* and closing, or another thread and lists.
ConversationOrLists ==
  \/ \A c \in {another, mine, queue} : call[c].pc = "idle"
  \/ \A c \in {ask, answer, look} : call[c].pc = "idle"

MCNext == Next /\ ConversationOrLists'

MCSpec == Init /\ [][MCNext]_vars
=============================================================================
