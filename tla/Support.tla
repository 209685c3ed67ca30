------------------------------ MODULE Support ------------------------------
(***************************************************************************)
(* Support threads: customers write, administrators reply and close.  A    *)
(* request first loads the thread, in a query of its own, and decides on   *)
(* what it saw; then it writes in a transaction; then it loads the thread  *)
(* again, in two queries, to answer with it.                               *)
(*                                                                         *)
(* now() is the time at which a transaction began, whatever the time at    *)
(* which its rows can be seen.  A transaction locks its thread's row until *)
(* it commits, so its writes are one step, Commit.                         *)
(***************************************************************************)
EXTENDS Naturals, FiniteSets

CONSTANTS
  Threads,
  Customers,
  Admins,
  Nobody,    \* NULL in assigned_admin_id
  Calls,     \* requests
  CallOf,    \* what each of them is, for which thread, and by whom
  ListOf     \* what the lists among them ask for

Kinds == {"create", "message", "reply", "close", "view", "list"}

\* A page, and, of administrators' lists, a status or "any", and the threads
\* whose subject or address matches the search.
ListRequest ==
  [status : {"any", "open", "in_progress", "closed"}, search : SUBSET Threads,
   limit : Nat \ {0}, offset : Nat]

ASSUME CallOfAssumption ==
  /\ CallOf \in [Calls -> [kind : Kinds, thread : Threads, by : Customers \union Admins]]
  /\ \A c, d \in Calls :
       /\ CallOf[c].kind = "create" /\ CallOf[d].kind = "create"
       /\ CallOf[c].thread = CallOf[d].thread
       => c = d
  /\ Customers \cap Admins = {}
  /\ Nobody \notin Customers \union Admins
ASSUME ListOfAssumption ==
  ListOf \in [{c \in Calls : CallOf[c].kind = "list"} -> ListRequest]
ASSUME CallsAssumption == IsFiniteSet(Calls)

VARIABLES
  threads,  \* support_threads
  call,     \* where each request is, when its transaction began, what its two queries found
  now,      \* the last time at which a transaction began
  raced     \* history: <<c, d>>, c committed while d was under way, or between
            \* the two queries of the list d

vars == <<threads, call, now, raced>>

Kind(c) == CallOf[c].kind
ThreadOf(c) == CallOf[c].thread
ByAdmin(c) == CallOf[c].by \in Admins

Never == 0   \* NULL in closed_at

Writes(c) == Kind(c) \notin {"view", "list"}
Posts(c) == Kind(c) \in {"create", "message", "reply"}
Decides(c) == Kind(c) \in {"reply", "close"}

\* Rows of support_threads, support_messages and admin_logs: each is named by
\* the call that wrote it.
Committed(c) == Writes(c) /\ call[c].pc \in {"committed", "half", "done"}
WritesTo(t) == {c \in Calls : Committed(c) /\ ThreadOf(c) = t}
MessagesOf(t) == {c \in WritesTo(t) : Posts(c)}
DecisionsOf(t) == {c \in WritesTo(t) : Decides(c)}

\* ORDER BY created_at DESC LIMIT 1
Newest(S) == {c \in S : \A d \in S : call[d].began <= call[c].began}

UnderWay(c) == call[c].pc \in {"ready", "begun"}

Listing(c) == Kind(c) = "list" /\ call[c].pc = "half"

NoRow == [status |-> "none", customer |-> Nobody, assigned |-> Nobody,
          updated |-> Never, closed |-> Never]

Init ==
  /\ threads = [t \in Threads |-> NoRow]
  /\ call = [c \in Calls |-> [pc |-> "idle", began |-> 0, found |-> {}, listed |-> {}]]
  /\ now = 0
  /\ raced = {}

----------------------------------------------------------------------------
(* Before the transaction *)

\* The row the query of GetThreadForCustomer or GetThreadForAdmin finds.
Visible(c) ==
  LET row == threads[ThreadOf(c)] IN
  /\ row.status # "none"
  /\ ByAdmin(c) \/ row.customer = CallOf[c].by

\* Mistake: the status is not looked at.
AnyStatus(c) == TRUE

Writable(c) == threads[ThreadOf(c)].status # "closed"

\* A new thread has an identity of its own; its order, if it names one, may turn
\* out to be another customer's (LoadRefused).
Load(c) ==
  /\ call[c].pc = "idle"
  /\ \/ Kind(c) = "create" /\ threads[ThreadOf(c)].status = "none" /\ ~ByAdmin(c)
     \/ Kind(c) = "message" /\ ~ByAdmin(c) /\ Visible(c) /\ Writable(c)
     \/ Kind(c) = "reply" /\ ByAdmin(c) /\ Visible(c) /\ Writable(c)
     \/ Kind(c) = "close" /\ ByAdmin(c) /\ Visible(c)
  /\ call' = [call EXCEPT ![c].pc = "ready"]
  /\ UNCHANGED <<threads, now, raced>>

LoadRefused(c) ==
  /\ call[c].pc = "idle"
  /\ \/ Kind(c) = "create"
     \/ Kind(c) # "list" /\ ~Visible(c)
     \/ Kind(c) \in {"message", "reply"} /\ ~Writable(c)
  /\ call' = [call EXCEPT ![c].pc = "refused"]
  /\ UNCHANGED <<threads, now, raced>>

----------------------------------------------------------------------------
(* The transaction *)

Begin(c) ==
  /\ call[c].pc = "ready"
  /\ now' = now + 1
  /\ call' = [call EXCEPT ![c].pc = "begun", ![c].began = now + 1]
  /\ UNCHANGED <<threads, raced>>

\* Mistake: who opens a thread is the one it is assigned to.
OpenedAssigned(c) ==
  [status |-> "open", customer |-> CallOf[c].by, assigned |-> CallOf[c].by,
   updated |-> call[c].began, closed |-> Never]

\* CreateThread, then its first message.
Opened(c) == [status |-> "open", customer |-> CallOf[c].by, assigned |-> Nobody,
              updated |-> call[c].began, closed |-> Never]

\* SetStatus, then the reply, whose update of the thread changes nothing more.
\* Mistake: closed_at is kept.
Redecided(row, c) ==
  [row EXCEPT !.status = "in_progress", !.assigned = CallOf[c].by, !.updated = call[c].began]

Replied(row, c) ==
  [row EXCEPT !.status = "in_progress", !.assigned = CallOf[c].by,
              !.updated = call[c].began, !.closed = Never]

Closed(row, c) ==
  [row EXCEPT !.status = "closed", !.assigned = CallOf[c].by,
              !.updated = call[c].began, !.closed = call[c].began]

\* CreateMessage leaves the status as it is.
Touched(row, c) == [row EXCEPT !.updated = call[c].began]

Written(row, c) ==
  IF Kind(c) = "create" THEN Opened(c)
  ELSE IF Kind(c) = "message" THEN Touched(row, c)
  ELSE IF Kind(c) = "reply" THEN Replied(row, c)
  ELSE Closed(row, c)

Commit(c) ==
  /\ call[c].pc = "begun"
  /\ threads' = [threads EXCEPT ![ThreadOf(c)] = Written(@, c)]
  /\ call' = [call EXCEPT ![c].pc = IF Kind(c) = "close" THEN "done" ELSE "committed"]
  /\ raced' = raced \union {<<c, d>> : d \in {e \in Calls \ {c} : UnderWay(e) \/ Listing(e)}}
  /\ UNCHANGED now

\* The request or its connection is lost: the deferred Rollback.
Abort(c) ==
  /\ call[c].pc = "begun"
  /\ call' = [call EXCEPT ![c].pc = "refused"]
  /\ UNCHANGED <<threads, now, raced>>

----------------------------------------------------------------------------
(* The answer *)

\* Mistake: a customer's list is not kept to the customer.
OfAnyCustomer(c, t) ==
  /\ threads[t].status # "none"
  /\ ByAdmin(c) => ListOf[c].status \in {"any", threads[t].status} /\ t \in ListOf[c].search

\* The WHERE of a list.
Matches(c, t) ==
  /\ threads[t].status # "none"
  /\ IF ByAdmin(c)
     THEN ListOf[c].status \in {"any", threads[t].status} /\ t \in ListOf[c].search
     ELSE threads[t].customer = CallOf[c].by

\* The threads it finds, each named by the call that opened it.
ThreadsFor(c) ==
  {d \in Calls : Committed(d) /\ Kind(d) = "create" /\ Matches(c, ThreadOf(d))}

\* ORDER BY last_message_at DESC: d's thread may come before e's.
MayPrecede(d, e) ==
  \A m \in MessagesOf(ThreadOf(e)) :
    \E l \in MessagesOf(ThreadOf(d)) : call[m].began <= call[l].began

\* The rows LIMIT and OFFSET leave of n.
PageLength(c, n) ==
  IF n <= ListOf[c].offset THEN 0
  ELSE IF n - ListOf[c].offset < ListOf[c].limit THEN n - ListOf[c].offset
  ELSE ListOf[c].limit

\* The pages the database may return.
Pages(c) ==
  {page \in SUBSET ThreadsFor(c) :
     /\ Cardinality(page) = PageLength(c, Cardinality(ThreadsFor(c)))
     /\ \/ page = {}
        \/ \E before \in SUBSET (ThreadsFor(c) \ page) :
             /\ Cardinality(before) = ListOf[c].offset
             /\ \A d \in before, e \in page : MayPrecede(d, e)
             /\ \A d \in page, e \in ThreadsFor(c) \ (page \union before) : MayPrecede(d, e)}

\* Mistake: the count of a list forgets the status it was asked for.
CountOfAnyStatus(c) ==
  IF Kind(c) # "list" THEN Newest(MessagesOf(ThreadOf(c)))
  ELSE {d \in Calls : /\ Committed(d) /\ Kind(d) = "create"
                      /\ ByAdmin(c) \/ CallOf[d].by = CallOf[c].by}

\* A thread with its last message, or the count of the threads to list.
FirstQuery(c) ==
  IF Kind(c) = "list" THEN ThreadsFor(c) ELSE Newest(MessagesOf(ThreadOf(c)))

\* Mistake: an administrator's messages are taken for notes.
OwnMessages(c) ==
  IF Kind(c) = "list" THEN Pages(c)
  ELSE {{m \in MessagesOf(ThreadOf(c)) : ByAdmin(m) => ByAdmin(c)}}

\* Its messages, or a page of the threads.
SecondQuery(c) == IF Kind(c) = "list" THEN Pages(c) ELSE {MessagesOf(ThreadOf(c))}

AnswerFirst(c) ==
  /\ \/ call[c].pc = "committed"
     \/ call[c].pc = "idle" /\ Kind(c) = "view" /\ Visible(c)
     \/ call[c].pc = "idle" /\ Kind(c) = "list"
  /\ call' = [call EXCEPT ![c].pc = "half", ![c].found = FirstQuery(c)]
  /\ UNCHANGED <<threads, now, raced>>

AnswerSecond(c) ==
  /\ call[c].pc = "half"
  /\ \E rows \in SecondQuery(c) :
       call' = [call EXCEPT ![c].pc = "done", ![c].listed = rows]
  /\ UNCHANGED <<threads, now, raced>>

----------------------------------------------------------------------------

Step(c) ==
  \/ Load(c) \/ LoadRefused(c) \/ Begin(c) \/ Commit(c) \/ Abort(c)
  \/ AnswerFirst(c) \/ AnswerSecond(c)

Next == \E c \in Calls : Step(c)

Spec == Init /\ [][Next]_vars

----------------------------------------------------------------------------
(* Correctness *)

ThreadRow == [status : {"none", "open", "in_progress", "closed"},
              customer : Customers \union {Nobody},
              assigned : Admins \union {Nobody},
              updated : Nat, closed : Nat]

CallState == [pc : {"idle", "ready", "begun", "committed", "half", "done", "refused"},
              began : Nat, found : SUBSET Calls, listed : SUBSET Calls]

\* The type of the state.
TypeOK ==
  /\ threads \in [Threads -> ThreadRow]
  /\ call \in [Calls -> CallState]
  /\ now \in Nat
  /\ raced \subseteq Calls \X Calls

\* A message or a reply reaches a closed conversation only when the closing was
\* committed between its check of the status and its write (AddCustomerMessage,
\* AddAdminMessage: the transaction does not look at the status again).
NothingAfterClose ==
  \A c \in Calls :
    /\ UnderWay(c) /\ Kind(c) \in {"message", "reply"}
    /\ threads[ThreadOf(c)].status = "closed"
    => \E k \in Calls : Kind(k) = "close" /\ ThreadOf(k) = ThreadOf(c) /\ <<k, c>> \in raced

\* c is dated after d, and was committed before it.
Overtook(c, d) == call[d].began < call[c].began /\ <<c, d>> \in raced

\* A thread is as its log dates it: updated_at is the date of its newest write, and
\* its status, its administrator and closed_at are what the newest reply or closing
\* made them. Otherwise that write was committed before one that is dated earlier.
RowFollowsLog ==
  \A t \in Threads :
    /\ \A c \in Newest(WritesTo(t)) :
         \/ threads[t].updated = call[c].began
         \/ \E d \in WritesTo(t) : Overtook(c, d)
    /\ \A c \in Newest(DecisionsOf(t)) :
         \/ /\ threads[t].assigned = CallOf[c].by
            /\ threads[t].status = IF Kind(c) = "close" THEN "closed" ELSE "in_progress"
            /\ threads[t].closed = IF Kind(c) = "close" THEN call[c].began ELSE Never
         \/ \E d \in DecisionsOf(t) : Overtook(c, d)

\* Although an answer is read in two queries, a conversation has the message it
\* was asked to write and the one it names as the last, and neither a conversation
\* nor a list shows a customer anything of another's threads.
AnswersAreWhole ==
  \A c \in Calls : call[c].pc = "done" /\ Kind(c) # "close" =>
    /\ Kind(c) # "list" => call[c].found \subseteq call[c].listed
    /\ Posts(c) => c \in call[c].listed
    /\ \A d \in call[c].listed : ByAdmin(c) \/ ByAdmin(d) \/ CallOf[d].by = CallOf[c].by

\* A list that looks at the status, as an administrator's may.
ByStatus(c) == ByAdmin(c) /\ ListOf[c].status # "any"

\* The count is read before the page, and a page is never shorter than the count
\* lets the reader expect, except that a reply or a closing between the two queries
\* may take a counted thread out of a list by status.
PagesKeepTheCount ==
  \A c \in Calls : Kind(c) = "list" /\ call[c].pc = "done" =>
    \/ Cardinality(call[c].listed) >= PageLength(c, Cardinality(call[c].found))
    \/ /\ ByStatus(c)
       /\ \E o \in call[c].found, d \in Calls :
            Decides(d) /\ ThreadOf(d) = ThreadOf(o) /\ <<d, c>> \in raced
=============================================================================
