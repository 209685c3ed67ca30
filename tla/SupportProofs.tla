--------------------------- MODULE SupportProofs ---------------------------
(***************************************************************************)
(* Proofs about Support, for any threads and any requests at once.         *)
(***************************************************************************)
EXTENDS Support, FiniteSetTheorems, TLAPS

\* What may be under way at a thread that does not exist yet: its creation.
InStep ==
  /\ \A c \in Calls :
       /\ UnderWay(c) => Writes(c) /\ (ByAdmin(c) <=> Decides(c))
       /\ UnderWay(c) /\ Kind(c) = "create" => threads[ThreadOf(c)].status = "none"
       /\ UnderWay(c) /\ Kind(c) # "create" => threads[ThreadOf(c)].status # "none"
  /\ \A t \in Threads : threads[t].status = "none" => WritesTo(t) = {}

Dated(c) == call[c].pc = "begun" \/ Committed(c)

\* Every transaction has a date of its own, and a committed one that is dated after
\* one under way was committed before it.
DatesOrder ==
  /\ \A c \in Calls : call[c].began <= now
  /\ \A c, d \in Calls : Dated(c) /\ Dated(d) /\ call[c].began = call[d].began => c = d
  /\ \A c, d \in Calls :
       Committed(c) /\ call[d].pc = "begun" /\ call[d].began < call[c].began
       => <<c, d>> \in raced

IInv ==
  /\ TypeOK
  /\ InStep
  /\ DatesOrder
  /\ NothingAfterClose
  /\ RowFollowsLog

LEMMA InitIInv == Init => IInv
<1> SUFFICES ASSUME Init
             PROVE  IInv
  OBVIOUS
<1>1. TypeOK
  <2>1. threads \in [Threads -> ThreadRow]
    BY DEF Init, ThreadRow, NoRow, Never
  <2>2. call \in [Calls -> CallState]
    BY DEF Init, CallState
  <2>. QED
    BY <2>1, <2>2 DEF Init, TypeOK
<1>2. \A c \in Calls : call[c].pc = "idle" /\ call[c].began = 0
  BY DEF Init
<1>3. \A t \in Threads : WritesTo(t) = {}
  BY <1>2 DEF WritesTo, Committed
<1>4. InStep
  BY <1>2, <1>3 DEF InStep, UnderWay
<1>5. DatesOrder
  BY <1>2 DEF Init, DatesOrder, Dated, Committed
<1>6. NothingAfterClose
  BY <1>2 DEF NothingAfterClose, UnderWay
<1>7. RowFollowsLog
  BY <1>3 DEF RowFollowsLog, DecisionsOf, Newest
<1>. QED
  BY <1>1, <1>4, <1>5, <1>6, <1>7 DEF IInv

\* What TypeOK says of one call, and of one row.
LEMMA RowTypes ==
  ASSUME TypeOK
  PROVE  /\ \A c \in Calls : /\ call[c] \in CallState
                             /\ call[c].began \in Nat
                             /\ ThreadOf(c) \in Threads
                             /\ CallOf[c].by \in Customers \union Admins
                             /\ Kind(c) \in Kinds
         /\ \A t \in Threads : threads[t] \in ThreadRow
BY CallOfAssumption DEF TypeOK, CallState, ThreadOf, Kind

\* A step that writes no row leaves the threads as their log has them.
LEMMA NothingWritten ==
  ASSUME IInv, TypeOK', UNCHANGED <<threads, raced>>,
         \A c \in Calls : /\ Committed(c)' = Committed(c)
                          /\ Committed(c) => call'[c].began = call[c].began
  PROVE  RowFollowsLog'
<1>1. \A t \in Threads : WritesTo(t)' = WritesTo(t) /\ DecisionsOf(t)' = DecisionsOf(t)
  BY DEF WritesTo, DecisionsOf
<1>2. \A t \in Threads : \A c \in WritesTo(t) : call'[c].began = call[c].began
  BY DEF WritesTo
<1>3. \A t \in Threads : /\ Newest(WritesTo(t))' = Newest(WritesTo(t))
                         /\ Newest(DecisionsOf(t))' = Newest(DecisionsOf(t))
  BY <1>1, <1>2 DEF Newest, DecisionsOf
<1>4. \A t \in Threads : \A c, d \in WritesTo(t) : Overtook(c, d)' = Overtook(c, d)
  BY <1>2 DEF Overtook
<1>. QED
  BY <1>1, <1>2, <1>3, <1>4 DEF IInv, RowFollowsLog, DecisionsOf, Newest

\* A call that checks, looks or is refused.
LEMMA QuietKeeps ==
  ASSUME IInv, NEW c \in Calls,
         Load(c) \/ LoadRefused(c) \/ Abort(c) \/ AnswerFirst(c) \/ AnswerSecond(c)
  PROVE  IInv'
<1>1. /\ UNCHANGED <<threads, now, raced>>
      /\ \A d \in Calls : call'[d].began = call[d].began
      /\ \A d \in Calls \ {c} : call'[d] = call[d]
  BY DEF IInv, TypeOK, CallState, Load, LoadRefused, Abort, AnswerFirst, AnswerSecond
<1>2. FirstQuery(c) \subseteq Calls /\ \A rows \in SecondQuery(c) : rows \subseteq Calls
  BY DEF Newest, MessagesOf, WritesTo, FirstQuery, SecondQuery, Pages, ThreadsFor
<1>3. TypeOK'
  <2>1. CASE Load(c)
    BY <2>1 DEF IInv, TypeOK, CallState, Load
  <2>2. CASE LoadRefused(c)
    BY <2>2 DEF IInv, TypeOK, CallState, LoadRefused
  <2>3. CASE Abort(c)
    BY <2>3 DEF IInv, TypeOK, CallState, Abort
  <2>4. CASE AnswerFirst(c)
    <3>1. call[c] \in CallState
      BY DEF IInv, TypeOK
    <3>2. call'[c] \in CallState
      BY <1>2, <2>4, <3>1 DEF IInv, TypeOK, CallState, AnswerFirst
    <3>. QED
      BY <1>1, <2>4, <3>2 DEF IInv, TypeOK, AnswerFirst
  <2>5. CASE AnswerSecond(c)
    <3>1. call[c] \in CallState
      BY DEF IInv, TypeOK
    <3>2. PICK rows \in SecondQuery(c) : call' = [call EXCEPT ![c].pc = "done", ![c].listed = rows]
      BY <2>5 DEF AnswerSecond
    <3>3. call'[c] \in CallState
      BY <1>2, <3>1, <3>2 DEF IInv, TypeOK, CallState
    <3>. QED
      BY <1>1, <3>2, <3>3 DEF IInv, TypeOK
  <2>. QED
    BY <2>1, <2>2, <2>3, <2>4, <2>5
<1>4. Committed(c)' = Committed(c) /\ ~(call'[c].pc = "begun")
  BY RowTypes DEF IInv, TypeOK, CallState, Load, LoadRefused, Abort, AnswerFirst, AnswerSecond,
     Committed, Writes, Kinds
<1>5. \A d \in Calls : Committed(d)' = Committed(d)
  BY <1>1, <1>4 DEF Committed
<1>6. \A t \in Threads : WritesTo(t)' = WritesTo(t)
  BY <1>5 DEF WritesTo
<1>7. UnderWay(c)' => /\ Writes(c) /\ (ByAdmin(c) <=> Decides(c))
                      /\ (Kind(c) = "create" <=> threads[ThreadOf(c)].status = "none")
                      /\ Kind(c) \in {"message", "reply"} => threads[ThreadOf(c)].status # "closed"
  <2>1. CASE Load(c)
    BY <2>1 DEF Load, ByAdmin, Writes, Decides, Visible, Writable
  <2>2. CASE ~Load(c)
    BY <2>2 DEF IInv, TypeOK, CallState, LoadRefused, Abort, AnswerFirst, AnswerSecond, UnderWay
  <2>. QED
    BY <2>1, <2>2
<1>8. InStep'
  BY <1>1, <1>6, <1>7 DEF IInv, InStep, UnderWay
<1>9. DatesOrder'
  BY <1>1, <1>4, <1>5 DEF IInv, DatesOrder, Dated
<1>10. NothingAfterClose'
  BY <1>1, <1>7 DEF IInv, NothingAfterClose, UnderWay
<1>11. RowFollowsLog'
  BY <1>1, <1>3, <1>5, NothingWritten
<1>. QED
  BY <1>3, <1>8, <1>9, <1>10, <1>11 DEF IInv

LEMMA BeginKeeps ==
  ASSUME IInv, NEW c \in Calls, Begin(c)
  PROVE  IInv'
<1>1. /\ UNCHANGED <<threads, raced>>
      /\ now' = now + 1 /\ now \in Nat
      /\ call[c].pc = "ready" /\ call'[c].pc = "begun" /\ call'[c].began = now + 1
      /\ \A d \in Calls \ {c} : call'[d] = call[d]
  BY DEF IInv, TypeOK, CallState, Begin
<1>2. TypeOK'
  <2>1. call[c] \in CallState
    BY DEF IInv, TypeOK
  <2>2. call'[c] = [pc |-> "begun", began |-> now + 1,
                    found |-> call[c].found, listed |-> call[c].listed]
    BY <2>1 DEF IInv, TypeOK, CallState, Begin
  <2>3. call'[c] \in CallState
    BY <1>1, <2>1, <2>2 DEF CallState
  <2>. QED
    BY <1>1, <2>3 DEF IInv, TypeOK, Begin
<1>3. \A d \in Calls : Committed(d)' = Committed(d) /\ (Committed(d) => d # c)
  BY <1>1 DEF Committed
<1>4. InStep'
  <2>1. \A t \in Threads : WritesTo(t)' = WritesTo(t)
    BY <1>3 DEF WritesTo
  <2>. QED
    BY <1>1, <2>1 DEF IInv, InStep, UnderWay
<1>5. DatesOrder'
  <2>1. \A d \in Calls : d # c => call[d].began <= now /\ call[d].began \in Nat
    BY RowTypes DEF IInv, DatesOrder
  <2>2. \A d \in Calls : call'[d].began <= now'
    BY <1>1, <2>1
  <2>3. \A d, e \in Calls : Dated(d)' /\ Dated(e)' /\ call'[d].began = call'[e].began => d = e
    BY <1>1, <1>3, <2>1 DEF IInv, DatesOrder, Dated
  <2>4. \A d, e \in Calls :
          Committed(d)' /\ call'[e].pc = "begun" /\ call'[e].began < call'[d].began
          => <<d, e>> \in raced'
    BY <1>1, <1>3, <2>1 DEF IInv, DatesOrder
  <2>. QED
    BY <2>2, <2>3, <2>4 DEF DatesOrder
<1>6. NothingAfterClose'
  BY <1>1 DEF IInv, NothingAfterClose, UnderWay
<1>7. RowFollowsLog'
  <2>1. \A d \in Calls : Committed(d) => call'[d].began = call[d].began
    BY <1>1, <1>3
  <2>. QED
    BY <1>1, <1>2, <1>3, <2>1, NothingWritten
<1>. QED
  BY <1>2, <1>4, <1>5, <1>6, <1>7 DEF IInv

LEMMA CommitKeeps ==
  ASSUME IInv, NEW c \in Calls, Commit(c)
  PROVE  IInv'
<1> DEFINE t == ThreadOf(c)
<1>1. /\ now' = now
      /\ call[c].pc = "begun" /\ call'[c].pc \in {"committed", "done"}
      /\ \A d \in Calls : call'[d].began = call[d].began
      /\ \A d \in Calls \ {c} : call'[d] = call[d]
      /\ Kind(c) # "close" => call'[c].pc = "committed"
  BY DEF IInv, TypeOK, CallState, Commit
<1>2. t \in Threads /\ call[c].began \in Nat /\ threads[t] \in ThreadRow
  BY RowTypes DEF IInv
<1>3. /\ threads'[t] = Written(threads[t], c)
      /\ \A u \in Threads \ {t} : threads'[u] = threads[u]
  BY <1>2 DEF IInv, TypeOK, Commit
<1>4. /\ raced \subseteq raced'
      /\ \A d \in Calls \ {c} : UnderWay(d) => <<c, d>> \in raced'
  BY DEF Commit
<1>5. Writes(c)
  BY <1>1 DEF IInv, InStep, UnderWay
<1>6. Committed(c)' /\ ~Committed(c) /\ \A d \in Calls \ {c} : Committed(d)' = Committed(d)
  BY <1>1, <1>5 DEF Committed
<1>7. /\ Kind(c) \in {"create", "message"} => CallOf[c].by \in Customers
      /\ Kind(c) \in {"reply", "close"} => CallOf[c].by \in Admins
      /\ (Kind(c) = "create" <=> threads[t].status = "none")
      /\ Kind(c) \in {"create", "message", "reply", "close"}
  BY <1>1, <1>5, RowTypes DEF IInv, InStep, UnderWay, ByAdmin, Decides, Writes, Kinds
<1>8. TypeOK'
  <2>1. Written(threads[t], c) \in ThreadRow
    <3>1. Kind(c) = "create" => Opened(c) \in ThreadRow
      BY <1>2, <1>7 DEF Opened, ThreadRow, Never
    <3>2. Touched(threads[t], c) \in ThreadRow
      BY <1>2 DEF Touched, ThreadRow
    <3>3. Kind(c) = "reply" => Replied(threads[t], c) \in ThreadRow
      BY <1>2, <1>7 DEF Replied, ThreadRow, Never
    <3>4. Kind(c) = "close" => Closed(threads[t], c) \in ThreadRow
      BY <1>2, <1>7 DEF Closed, ThreadRow
    <3>. QED
      BY <1>7, <3>1, <3>2, <3>3, <3>4 DEF Written
  <2>2. threads' \in [Threads -> ThreadRow]
    BY <1>2, <1>3, <2>1 DEF IInv, TypeOK, Commit
  <2>3. call' \in [Calls -> CallState]
    BY DEF IInv, TypeOK, CallState, Commit
  <2>4. raced' \subseteq Calls \X Calls
    BY DEF IInv, TypeOK, Commit
  <2>. QED
    BY <1>1, <2>2, <2>3, <2>4 DEF IInv, TypeOK
<1>9. \A u \in Threads : WritesTo(u)' = IF u = t THEN WritesTo(u) \union {c} ELSE WritesTo(u)
  BY <1>6 DEF WritesTo
<1>10. /\ threads'[t].updated = call[c].began
       /\ threads'[t].status # "none"
       /\ Kind(c) = "create" => threads'[t].status = "open"
       /\ Kind(c) = "message" =>
            /\ threads'[t].status = threads[t].status
            /\ threads'[t].assigned = threads[t].assigned
            /\ threads'[t].closed = threads[t].closed
       /\ Decides(c) =>
            /\ threads'[t].assigned = CallOf[c].by
            /\ threads'[t].status = IF Kind(c) = "close" THEN "closed" ELSE "in_progress"
            /\ threads'[t].closed = IF Kind(c) = "close" THEN call[c].began ELSE Never
  <2>1. CASE Kind(c) = "create"
    BY <1>3, <2>1 DEF Written, Opened, Decides
  <2>2. CASE Kind(c) = "message"
    BY <1>2, <1>3, <1>7, <2>2 DEF Written, Touched, Decides, ThreadRow
  <2>3. CASE Kind(c) = "reply"
    BY <1>2, <1>3, <2>3 DEF Written, Replied, Decides, ThreadRow
  <2>4. CASE Kind(c) = "close"
    BY <1>2, <1>3, <2>4 DEF Written, Closed, Decides, ThreadRow
  <2>. QED
    BY <1>7, <2>1, <2>2, <2>3, <2>4
<1>11. InStep'
  <2>1. ASSUME NEW d \in Calls, UnderWay(d)'
        PROVE  /\ Writes(d) /\ (ByAdmin(d) <=> Decides(d))
               /\ Kind(d) = "create" => threads'[ThreadOf(d)].status = "none"
               /\ Kind(d) # "create" => threads'[ThreadOf(d)].status # "none"
    <3>1. d # c /\ UnderWay(d) /\ ThreadOf(d) \in Threads
      BY <1>1, <2>1, RowTypes DEF UnderWay, IInv
    <3>2. CASE ThreadOf(d) # t
      BY <1>3, <3>1, <3>2 DEF IInv, InStep
    <3>3. CASE ThreadOf(d) = t
      <4>1. Kind(d) # "create"
        BY <1>7, <3>1, <3>3, CallOfAssumption DEF IInv, InStep, Kind, ThreadOf
      <4>. QED
        BY <1>10, <3>1, <3>3, <4>1 DEF IInv, InStep
    <3>. QED
      BY <3>2, <3>3
  <2>2. \A u \in Threads : threads'[u].status = "none" => WritesTo(u)' = {}
    BY <1>3, <1>9, <1>10 DEF IInv, InStep
  <2>. QED
    BY <2>1, <2>2 DEF InStep
<1>12. DatesOrder'
  <2>1. \A d \in Calls : Dated(d)' = Dated(d)
    BY <1>1, <1>6 DEF Dated
  <2>2. ASSUME NEW d \in Calls, NEW e \in Calls, Committed(d)', call'[e].pc = "begun",
               call'[e].began < call'[d].began
        PROVE  <<d, e>> \in raced'
    <3>1. e # c /\ call[e].pc = "begun"
      BY <1>1, <2>2
    <3>2. CASE d = c
      BY <1>4, <3>1, <3>2 DEF UnderWay
    <3>3. CASE d # c
      BY <1>1, <1>4, <1>6, <2>2, <3>1, <3>3 DEF IInv, DatesOrder
    <3>. QED
      BY <3>2, <3>3
  <2>. QED
    BY <1>1, <2>1, <2>2 DEF IInv, DatesOrder
<1>13. NothingAfterClose'
  <2>1. ASSUME NEW d \in Calls, UnderWay(d)', Kind(d) \in {"message", "reply"},
               threads'[ThreadOf(d)].status = "closed"
        PROVE  \E k \in Calls :
                 Kind(k) = "close" /\ ThreadOf(k) = ThreadOf(d) /\ <<k, d>> \in raced'
    <3>1. d # c /\ UnderWay(d) /\ ThreadOf(d) \in Threads
      BY <1>1, <2>1, RowTypes DEF UnderWay, IInv
    <3>2. CASE threads[ThreadOf(d)].status = "closed"
      BY <1>4, <2>1, <3>1, <3>2 DEF IInv, NothingAfterClose
    <3>3. CASE threads[ThreadOf(d)].status # "closed"
      <4>1. ThreadOf(d) = t /\ Kind(c) = "close"
        BY <1>3, <1>7, <1>10, <2>1, <3>1, <3>3 DEF Decides
      <4>. QED
        BY <1>4, <3>1, <4>1
    <3>. QED
      BY <3>2, <3>3
  <2>. QED
    BY <2>1 DEF NothingAfterClose
<1>14. RowFollowsLog'
  <2>1. ASSUME NEW d \in Calls, Committed(d), call[c].began <= call[d].began
        PROVE  Overtook(d, c)'
    <3>1. d # c
      BY <1>6, <2>1
    <3>2. call[c].began < call[d].began
      BY <1>1, <1>2, <2>1, <3>1, RowTypes DEF IInv, DatesOrder, Dated
    <3>. QED
      BY <1>1, <1>4, <2>1, <3>2 DEF IInv, DatesOrder, Overtook
  <2>2. \A d, e \in Calls : Overtook(d, e) => Overtook(d, e)'
    BY <1>1, <1>4 DEF Overtook
  <2>3. ASSUME NEW d \in Newest(WritesTo(t))'
        PROVE  \/ threads'[t].updated = call'[d].began
               \/ \E e \in WritesTo(t)' : Overtook(d, e)'
    <3>1. d \in WritesTo(t)' /\ call[c].began <= call[d].began /\ d \in Calls
      BY <1>1, <1>2, <1>9, <2>3 DEF Newest, WritesTo
    <3>2. CASE d = c
      BY <1>1, <1>10, <3>2
    <3>3. CASE d # c
      BY <1>2, <1>9, <2>1, <3>1, <3>3 DEF WritesTo
    <3>. QED
      BY <3>2, <3>3
  <2>4. DecisionsOf(t)' = IF Decides(c) THEN DecisionsOf(t) \union {c} ELSE DecisionsOf(t)
    BY <1>2, <1>9 DEF DecisionsOf
  <2>5. ASSUME NEW d \in Newest(DecisionsOf(t))'
        PROVE  \/ /\ threads'[t].assigned = CallOf[d].by
                  /\ threads'[t].status = IF Kind(d) = "close" THEN "closed" ELSE "in_progress"
                  /\ threads'[t].closed = IF Kind(d) = "close" THEN call'[d].began ELSE Never
               \/ \E e \in DecisionsOf(t)' : Overtook(d, e)'
    <3>1. d \in DecisionsOf(t)' /\ d \in Calls
      BY <2>5 DEF Newest, DecisionsOf, WritesTo
    <3>2. CASE Decides(c) /\ d = c
      BY <1>1, <1>10, <3>2
    <3>3. CASE Decides(c) /\ d # c
      <4>0. c \in DecisionsOf(t)'
        BY <2>4, <3>3
      <4>1. call[c].began <= call[d].began
        BY <1>1, <2>5, <3>1, <4>0 DEF Newest
      <4>2. Committed(d)
        BY <2>4, <3>1, <3>3 DEF DecisionsOf, WritesTo
      <4>. QED
        BY <2>1, <3>1, <4>0, <4>1, <4>2
    <3>4. CASE ~Decides(c)
      <4>1. DecisionsOf(t)' = DecisionsOf(t) /\ d \in Newest(DecisionsOf(t))
        BY <1>1, <2>4, <2>5, <3>4 DEF Newest, DecisionsOf, WritesTo
      <4>2. Kind(c) = "message"
        <5>1. DecisionsOf(t) # {}
          BY <4>1 DEF Newest
        <5>2. WritesTo(t) # {}
          BY <5>1 DEF DecisionsOf
        <5>. QED
          BY <1>2, <1>7, <3>4, <5>2 DEF IInv, InStep, Decides
      <4>3. \/ /\ threads[t].assigned = CallOf[d].by
               /\ threads[t].status = IF Kind(d) = "close" THEN "closed" ELSE "in_progress"
               /\ threads[t].closed = IF Kind(d) = "close" THEN call[d].began ELSE Never
            \/ \E e \in DecisionsOf(t) : Overtook(d, e)
        BY <1>2, <4>1 DEF IInv, RowFollowsLog
      <4>4. \A e \in DecisionsOf(t) : e \in Calls
        BY DEF DecisionsOf, WritesTo
      <4>. QED
        BY <1>1, <1>10, <2>2, <3>1, <4>1, <4>2, <4>3, <4>4
    <3>. QED
      BY <3>2, <3>3, <3>4
  <2>6. ASSUME NEW u \in Threads \ {t}
        PROVE  /\ threads'[u] = threads[u]
               /\ WritesTo(u)' = WritesTo(u) /\ DecisionsOf(u)' = DecisionsOf(u)
               /\ Newest(WritesTo(u))' = Newest(WritesTo(u))
               /\ Newest(DecisionsOf(u))' = Newest(DecisionsOf(u))
    <3>1. WritesTo(u)' = WritesTo(u) /\ DecisionsOf(u)' = DecisionsOf(u)
      BY <1>9 DEF DecisionsOf
    <3>. QED
      BY <1>1, <1>3, <3>1 DEF Newest, DecisionsOf, WritesTo
  <2>7. \A u \in Threads : WritesTo(u) \subseteq Calls /\ DecisionsOf(u) \subseteq Calls
    BY DEF WritesTo, DecisionsOf
  <2>8. ASSUME NEW u \in Threads \ {t}
        PROVE  /\ \A d \in Newest(WritesTo(u))' :
                    \/ threads'[u].updated = call'[d].began
                    \/ \E e \in WritesTo(u)' : Overtook(d, e)'
               /\ \A d \in Newest(DecisionsOf(u))' :
                    \/ /\ threads'[u].assigned = CallOf[d].by
                       /\ threads'[u].status = IF Kind(d) = "close" THEN "closed" ELSE "in_progress"
                       /\ threads'[u].closed = IF Kind(d) = "close" THEN call'[d].began ELSE Never
                    \/ \E e \in DecisionsOf(u)' : Overtook(d, e)'
    BY <1>1, <2>2, <2>6, <2>7 DEF IInv, RowFollowsLog, Newest
  <2>. QED
    BY <2>3, <2>5, <2>8 DEF RowFollowsLog
<1>. QED
  BY <1>8, <1>11, <1>12, <1>13, <1>14 DEF IInv

LEMMA NextIInv == IInv /\ [Next]_vars => IInv'
<1> SUFFICES ASSUME IInv, [Next]_vars
             PROVE  IInv'
  OBVIOUS
<1>1. CASE UNCHANGED vars
  <2>1. \A c \in Calls : UnderWay(c)' = UnderWay(c) /\ Committed(c)' = Committed(c)
    BY <1>1 DEF vars, UnderWay, Committed
  <2>2. TypeOK' /\ NothingAfterClose'
    BY <1>1, <2>1 DEF vars, IInv, TypeOK, NothingAfterClose
  <2>3. \A t \in Threads : WritesTo(t)' = WritesTo(t)
    BY <2>1 DEF WritesTo
  <2>4. InStep' /\ DatesOrder'
    BY <1>1, <2>1, <2>3 DEF vars, IInv, InStep, DatesOrder, Dated
  <2>5. RowFollowsLog'
    BY <1>1, <2>1, <2>2, NothingWritten DEF vars
  <2>. QED
    BY <2>2, <2>4, <2>5 DEF IInv
<1>. QED
  BY <1>1, QuietKeeps, BeginKeeps, CommitKeeps DEF Next, Step

LEMMA Invariance == Spec => []IInv
BY InitIInv, NextIInv, PTL DEF Spec

----------------------------------------------------------------------------
(* What the answers show *)

\* c is an administrator, or wrote to a thread of its own.
Entitled(c) == ByAdmin(c) \/ CallOf[c].by = threads[ThreadOf(c)].customer

\* Who writes to a thread, or is half answered with it, may see it; and the message
\* the first query of that answer has found the second will find.
Shown ==
  /\ \A c \in Calls : Committed(c) => Entitled(c)
  /\ \A c \in Calls : call[c].pc = "committed" => Committed(c)
  /\ \A c \in Calls : UnderWay(c) /\ Kind(c) # "create" => Entitled(c)
  /\ \A c \in Calls : call[c].pc = "half" /\ Kind(c) # "list" =>
       /\ call[c].found \subseteq MessagesOf(ThreadOf(c))
       /\ Entitled(c)
       /\ threads[ThreadOf(c)].status # "none"
  /\ AnswersAreWhole

LEMMA InitShown == Init => Shown
BY DEF Init, Shown, Committed, UnderWay, AnswersAreWhole

\* No conversation has fewer messages than it had before.
LEMMA MoreIsFound ==
  ASSUME \A c \in Calls : Committed(c) => Committed(c)'
  PROVE  \A c \in Calls : MessagesOf(ThreadOf(c)) \subseteq MessagesOf(ThreadOf(c))'
BY DEF MessagesOf, WritesTo

\* The second query of an answer only finds what its reader may see.
LEMMA FoundIsVisible ==
  ASSUME Shown, NEW c \in Calls, Kind(c) # "list" => Entitled(c), NEW rows \in SecondQuery(c), NEW d \in rows
  PROVE  ByAdmin(c) \/ ByAdmin(d) \/ CallOf[d].by = CallOf[c].by
<1>1. CASE Kind(c) = "list"
  <2>1. d \in Calls /\ Committed(d) /\ Matches(c, ThreadOf(d))
    BY <1>1 DEF SecondQuery, Pages, ThreadsFor
  <2>. QED
    BY <2>1 DEF Shown, Entitled, Matches
<1>2. CASE Kind(c) # "list"
  <2>1. d \in Calls /\ Committed(d) /\ ThreadOf(d) = ThreadOf(c)
    BY <1>2 DEF SecondQuery, MessagesOf, WritesTo
  <2>. QED
    BY <1>2, <2>1 DEF Shown, Entitled
<1>. QED
  BY <1>1, <1>2

\* Steps outside the transaction's write.
LEMMA QuietShown ==
  ASSUME IInv, Shown, NEW c \in Calls,
         \/ Load(c) \/ LoadRefused(c) \/ Begin(c) \/ Abort(c)
         \/ AnswerFirst(c) \/ AnswerSecond(c)
  PROVE  Shown'
<1>1. /\ UNCHANGED threads
      /\ call[c] \in CallState
      /\ \A d \in Calls \ {c} : call'[d] = call[d]
  BY DEF IInv, TypeOK, Load, LoadRefused, Begin, Abort, AnswerFirst, AnswerSecond
<1>2. Committed(c)' = Committed(c)
  BY RowTypes DEF IInv, TypeOK, CallState, Load, LoadRefused, Begin, Abort, AnswerFirst,
     AnswerSecond, Committed, Writes, Kinds
<1>3. \A d \in Calls : Committed(d)' = Committed(d)
  BY <1>1, <1>2 DEF Committed
<1>4. \A d \in Calls : MessagesOf(ThreadOf(d)) \subseteq MessagesOf(ThreadOf(d))'
  BY <1>3, MoreIsFound
<1>5. \A d \in Calls : Entitled(d)' = Entitled(d)
  BY <1>1 DEF Entitled
<1>6. UnderWay(c)' /\ Kind(c) # "create" => Entitled(c)
  <2>1. CASE Load(c)
    BY <2>1 DEF Load, Visible, Entitled
  <2>2. CASE Begin(c)
    BY <2>2 DEF Begin, Shown, UnderWay
  <2>3. CASE ~Load(c) /\ ~Begin(c)
    BY <1>1, <2>3 DEF IInv, TypeOK, CallState, LoadRefused, Abort, AnswerFirst, AnswerSecond, UnderWay
  <2>. QED
    BY <2>1, <2>2, <2>3
<1>7. call'[c].pc = "half" /\ Kind(c) # "list" =>
        /\ call'[c].found \subseteq MessagesOf(ThreadOf(c))'
        /\ Entitled(c)
        /\ threads[ThreadOf(c)].status # "none"
  <2>1. CASE AnswerFirst(c)
    <3>1. call'[c].found = FirstQuery(c)
      BY <2>1 DEF IInv, TypeOK, CallState, AnswerFirst
    <3>2. Kind(c) # "list" => FirstQuery(c) \subseteq MessagesOf(ThreadOf(c))
      BY DEF FirstQuery, Newest
    <3>3. ASSUME Kind(c) # "list"
          PROVE  Entitled(c) /\ threads[ThreadOf(c)].status # "none"
      <4>1. CASE call[c].pc = "committed"
        <5>1. Committed(c)
          BY <4>1 DEF Shown
        <5>. QED
          BY <4>1, <5>1, RowTypes DEF IInv, InStep, Shown, WritesTo
      <4>2. CASE call[c].pc # "committed"
        BY <2>1, <3>3, <4>2 DEF AnswerFirst, Visible, Entitled
      <4>. QED
        BY <4>1, <4>2
    <3>. QED
      BY <1>4, <3>1, <3>2, <3>3
  <2>2. CASE ~AnswerFirst(c)
    BY <1>1, <2>2 DEF IInv, TypeOK, CallState, Load, LoadRefused, Begin, Abort, AnswerSecond
  <2>. QED
    BY <2>1, <2>2
<1>8. ASSUME call'[c].pc = "done", Kind(c) # "close"
      PROVE  /\ Kind(c) # "list" => call'[c].found \subseteq call'[c].listed
             /\ Posts(c) => c \in call'[c].listed
             /\ \A d \in call'[c].listed : ByAdmin(c) \/ ByAdmin(d) \/ CallOf[d].by = CallOf[c].by
  <2>1. AnswerSecond(c) \/ call[c].pc = "done"
    BY <1>1, <1>8 DEF IInv, TypeOK, CallState, Load, LoadRefused, Begin, Abort, AnswerFirst
  <2>2. CASE AnswerSecond(c)
    <3>1. PICK rows \in SecondQuery(c) :
            call' = [call EXCEPT ![c].pc = "done", ![c].listed = rows]
      BY <2>2 DEF AnswerSecond
    <3>2. /\ call[c].pc = "half"
          /\ call'[c].listed = rows /\ call'[c].found = call[c].found
      BY <2>2, <3>1 DEF IInv, TypeOK, CallState, AnswerSecond
    <3>3. Kind(c) # "list" => rows = MessagesOf(ThreadOf(c)) /\ Entitled(c)
      BY <3>2 DEF SecondQuery, Shown
    <3>4. Posts(c) => c \in rows
      BY <3>2, <3>3 DEF Posts, MessagesOf, WritesTo, Committed, Writes
    <3>5. \A d \in rows : ByAdmin(c) \/ ByAdmin(d) \/ CallOf[d].by = CallOf[c].by
      BY <3>3, FoundIsVisible
    <3>. QED
      BY <3>2, <3>3, <3>4, <3>5 DEF Shown
  <2>3. CASE call[c].pc = "done"
    <3>1. call'[c] = call[c]
      BY <1>1, <2>3 DEF Load, LoadRefused, Begin, Abort, AnswerFirst, AnswerSecond
    <3>. QED
      BY <1>8, <3>1 DEF Shown, AnswersAreWhole
  <2>. QED
    BY <2>1, <2>2, <2>3
<1>9. AnswersAreWhole'
  BY <1>1, <1>8 DEF Shown, AnswersAreWhole
<1>10. \A d \in Calls : call'[d].pc = "half" /\ Kind(d) # "list" =>
         /\ call'[d].found \subseteq MessagesOf(ThreadOf(d))'
         /\ Entitled(d)
         /\ threads[ThreadOf(d)].status # "none"
  BY <1>1, <1>4, <1>7 DEF Shown
<1>11. \A d \in Calls : UnderWay(d)' /\ Kind(d) # "create" => Entitled(d)
  BY <1>1, <1>6 DEF Shown, UnderWay
<1>12. \A d \in Calls : call'[d].pc = "committed" => call[d].pc = "committed"
  BY <1>1 DEF CallState, IInv, TypeOK, Load, LoadRefused, Begin, Abort, AnswerFirst, AnswerSecond
<1>. QED
  BY <1>1, <1>3, <1>5, <1>9, <1>10, <1>11, <1>12 DEF Shown

\* A write keeps a thread with its customer, and only a creation gives it one.
LEMMA CommitShown ==
  ASSUME IInv, Shown, NEW c \in Calls, Commit(c)
  PROVE  Shown'
<1> DEFINE t == ThreadOf(c)
<1>1. /\ call[c].pc = "begun" /\ call[c] \in CallState
      /\ call'[c].pc = IF Kind(c) = "close" THEN "done" ELSE "committed"
      /\ \A d \in Calls \ {c} : call'[d] = call[d]
  BY DEF IInv, TypeOK, Commit
<1>2. t \in Threads /\ threads[t] \in ThreadRow
  BY RowTypes DEF IInv
<1>3. /\ threads'[t] = Written(threads[t], c)
      /\ \A u \in Threads \ {t} : threads'[u] = threads[u]
  BY <1>2 DEF IInv, TypeOK, Commit
<1>4. Writes(c) /\ (Kind(c) = "create" <=> threads[t].status = "none")
  BY <1>1 DEF IInv, InStep, UnderWay
<1>5. /\ threads'[t].customer = IF Kind(c) = "create" THEN CallOf[c].by ELSE threads[t].customer
      /\ threads'[t].status # "none"
  BY <1>2, <1>3, <1>4 DEF Written, Opened, Touched, Replied, Closed, ThreadRow
<1>6. \A d \in Calls \ {c} : Committed(d)' = Committed(d)
  BY <1>1 DEF Committed
<1>7. \A d \in Calls : MessagesOf(ThreadOf(d)) \subseteq MessagesOf(ThreadOf(d))'
  <2>1. ~Committed(c)
    BY <1>1 DEF Committed
  <2>. QED
    BY <1>6, <2>1, MoreIsFound
<1>8. ASSUME NEW d \in Calls, Entitled(d), threads[ThreadOf(d)].status # "none"
      PROVE  Entitled(d)' /\ threads'[ThreadOf(d)].status # "none"
  <2>1. ThreadOf(d) \in Threads
    BY RowTypes DEF IInv
  <2>. QED
    BY <1>3, <1>4, <1>5, <1>8, <2>1 DEF Entitled
<1>9. Entitled(c)'
  <2>1. CASE Kind(c) = "create"
    BY <1>5, <2>1 DEF Entitled
  <2>2. CASE Kind(c) # "create"
    BY <1>1, <1>4, <1>8, <2>2 DEF Shown, UnderWay
  <2>. QED
    BY <2>1, <2>2
<1>10. \A d \in Calls : Committed(d)' => Entitled(d)'
  <2>1. \A d \in Calls \ {c} : Committed(d) => threads[ThreadOf(d)].status # "none"
    BY RowTypes DEF IInv, InStep, WritesTo
  <2>. QED
    BY <1>6, <1>8, <1>9, <2>1 DEF Shown
<1>11. \A d \in Calls : UnderWay(d)' /\ Kind(d) # "create" => Entitled(d)'
  <2>1. \A d \in Calls : UnderWay(d)' => d # c /\ UnderWay(d)
    BY <1>1 DEF UnderWay
  <2>. QED
    BY <1>8, <2>1 DEF IInv, InStep, Shown
<1>12. \A d \in Calls : call'[d].pc = "half" /\ Kind(d) # "list" =>
         /\ call'[d].found \subseteq MessagesOf(ThreadOf(d))'
         /\ Entitled(d)'
         /\ threads'[ThreadOf(d)].status # "none"
  <2>1. \A d \in Calls : call'[d].pc = "half" => d # c
    BY <1>1
  <2>. QED
    BY <1>1, <1>7, <1>8, <2>1 DEF Shown
<1>13. AnswersAreWhole'
  BY <1>1 DEF Shown, AnswersAreWhole
<1>14. \A d \in Calls : call'[d].pc = "committed" => Committed(d)'
  BY <1>1, <1>4 DEF Shown, Committed
<1>. QED
  BY <1>10, <1>11, <1>12, <1>13, <1>14 DEF Shown

LEMMA NextShown == IInv /\ Shown /\ [Next]_vars => Shown'
<1> SUFFICES ASSUME IInv, Shown, [Next]_vars
             PROVE  Shown'
  OBVIOUS
<1>1. CASE UNCHANGED vars
  <2>1. \A c \in Calls : /\ Committed(c)' = Committed(c) /\ UnderWay(c)' = UnderWay(c)
                         /\ Entitled(c)' = Entitled(c)
    BY <1>1 DEF vars, UnderWay, Committed, Entitled
  <2>2. \A c \in Calls : MessagesOf(ThreadOf(c)) \subseteq MessagesOf(ThreadOf(c))'
    BY <2>1, MoreIsFound
  <2>3. AnswersAreWhole'
    BY <1>1 DEF vars, Shown, AnswersAreWhole
  <2>. QED
    BY <1>1, <2>1, <2>2, <2>3 DEF vars, Shown
<1>. QED
  BY <1>1, QuietShown, CommitShown DEF Next, Step

LEMMA AlwaysShown == Spec => []Shown
BY InitShown, NextShown, Invariance, PTL DEF Spec

----------------------------------------------------------------------------
(* What the lists show *)

\* Between the queries of the list c, a reply or a closing may have taken the thread
\* that o opened out of it.
TakenOut(c, o) ==
  /\ ByStatus(c)
  /\ \E d \in Calls : Decides(d) /\ ThreadOf(d) = ThreadOf(o) /\ <<d, c>> \in raced

\* Every other thread that was counted is still there to be listed.
Counted ==
  /\ \A c \in Calls : Listing(c) =>
       \A o \in call[c].found : o \in ThreadsFor(c) \/ TakenOut(c, o)
  /\ PagesKeepTheCount

LEMMA InitCounted == Init => Counted
BY DEF Init, Counted, Listing, PagesKeepTheCount

\* What a page is: part of what there is to list, as long as its request allows.
LEMMA ListRequests ==
  ASSUME NEW c \in Calls, Kind(c) = "list"
  PROVE  ListOf[c].limit \in Nat \ {0} /\ ListOf[c].offset \in Nat
BY ListOfAssumption DEF ListRequest, Kind

LEMMA LongerPages ==
  ASSUME NEW c \in Calls, Kind(c) = "list", NEW m \in Nat, NEW n \in Nat, m <= n
  PROVE  PageLength(c, n) >= PageLength(c, m)
BY ListRequests DEF PageLength

\* Steps outside the transaction's write.
LEMMA QuietCounted ==
  ASSUME IInv, Counted, NEW c \in Calls,
         \/ Load(c) \/ LoadRefused(c) \/ Begin(c) \/ Abort(c)
         \/ AnswerFirst(c) \/ AnswerSecond(c)
  PROVE  Counted'
<1>1. /\ UNCHANGED <<threads, raced>>
      /\ call[c] \in CallState
      /\ \A d \in Calls \ {c} : call'[d] = call[d]
  BY DEF IInv, TypeOK, Load, LoadRefused, Begin, Abort, AnswerFirst, AnswerSecond
<1>2. Committed(c)' = Committed(c)
  BY RowTypes DEF IInv, TypeOK, CallState, Load, LoadRefused, Begin, Abort, AnswerFirst,
     AnswerSecond, Committed, Writes, Kinds
<1>3. \A d \in Calls : ThreadsFor(d)' = ThreadsFor(d)
  BY <1>1, <1>2 DEF ThreadsFor, Matches, Committed
<1>4. ASSUME Listing(c)'
      PROVE  \A o \in call'[c].found : o \in ThreadsFor(c) \/ TakenOut(c, o)
  <2>1. CASE AnswerFirst(c)
    <3>1. call'[c].found = ThreadsFor(c)
      BY <1>4, <2>1 DEF IInv, TypeOK, CallState, AnswerFirst, FirstQuery, Listing
    <3>. QED
      BY <3>1
  <2>2. CASE ~AnswerFirst(c)
    BY <1>1, <1>4, <2>2 DEF IInv, TypeOK, CallState, Load, LoadRefused, Begin, Abort,
       AnswerSecond, Listing
  <2>. QED
    BY <2>1, <2>2
<1>5. ASSUME NEW d \in Calls, Listing(d)', NEW o \in call'[d].found
      PROVE  o \in ThreadsFor(d)' \/ TakenOut(d, o)'
  <2>1. o \in ThreadsFor(d) \/ TakenOut(d, o)
    BY <1>1, <1>4, <1>5 DEF Counted, Listing
  <2>. QED
    BY <1>1, <1>3, <2>1 DEF TakenOut
<1>6. ASSUME Kind(c) = "list", call'[c].pc = "done"
      PROVE  \/ Cardinality(call'[c].listed) >= PageLength(c, Cardinality(call'[c].found))
             \/ \E o \in call'[c].found : TakenOut(c, o)
  <2>1. CASE AnswerSecond(c)
    <3>1. PICK rows \in SecondQuery(c) :
            call' = [call EXCEPT ![c].pc = "done", ![c].listed = rows]
      BY <2>1 DEF AnswerSecond
    <3>2. /\ Listing(c)
          /\ call'[c].listed = rows /\ call'[c].found = call[c].found
      BY <1>6, <2>1, <3>1 DEF IInv, TypeOK, CallState, AnswerSecond, Listing
    <3>3. Cardinality(rows) = PageLength(c, Cardinality(ThreadsFor(c)))
      BY <1>6 DEF SecondQuery, Pages
    <3>4. CASE call[c].found \subseteq ThreadsFor(c)
      <4>1. IsFiniteSet(ThreadsFor(c))
        BY CallsAssumption, FS_Subset DEF ThreadsFor
      <4>2. /\ IsFiniteSet(call[c].found)
            /\ Cardinality(call[c].found) <= Cardinality(ThreadsFor(c))
        BY <3>4, <4>1, FS_Subset
      <4>3. Cardinality(call[c].found) \in Nat /\ Cardinality(ThreadsFor(c)) \in Nat
        BY <4>1, <4>2, FS_CardinalityType
      <4>. QED
        BY <1>6, <3>2, <3>3, <4>2, <4>3, LongerPages
    <3>5. CASE ~(call[c].found \subseteq ThreadsFor(c))
      BY <3>2, <3>5 DEF Counted
    <3>. QED
      BY <3>4, <3>5
  <2>2. CASE ~AnswerSecond(c)
    <3>1. call[c].pc = "done" /\ call'[c] = call[c]
      BY <1>1, <1>6, <2>2 DEF IInv, TypeOK, CallState, Load, LoadRefused, Begin, Abort,
         AnswerFirst
    <3>. QED
      BY <1>6, <3>1 DEF Counted, PagesKeepTheCount, TakenOut
  <2>. QED
    BY <2>1, <2>2
<1>7. PagesKeepTheCount'
  <2>1. ASSUME NEW d \in Calls, Kind(d) = "list", call'[d].pc = "done"
        PROVE  \/ Cardinality(call'[d].listed) >= PageLength(d, Cardinality(call'[d].found))
               \/ \E o \in call'[d].found : TakenOut(d, o)
    BY <1>1, <1>6, <2>1 DEF Counted, PagesKeepTheCount, TakenOut
  <2>. QED
    BY <1>1, <2>1 DEF PagesKeepTheCount, TakenOut
<1>. QED
  BY <1>5, <1>7 DEF Counted

\* A write takes a thread out of a list by status at most.
LEMMA CommitCounted ==
  ASSUME IInv, Counted, NEW c \in Calls, Commit(c)
  PROVE  Counted'
<1> DEFINE t == ThreadOf(c)
<1>1. /\ call[c].pc = "begun" /\ call[c] \in CallState
      /\ call'[c].pc \in {"committed", "done"}
      /\ \A d \in Calls \ {c} : call'[d] = call[d]
  BY DEF IInv, TypeOK, Commit
<1>2. t \in Threads /\ threads[t] \in ThreadRow
  BY RowTypes DEF IInv
<1>3. /\ threads'[t] = Written(threads[t], c)
      /\ \A u \in Threads \ {t} : threads'[u] = threads[u]
  BY <1>2 DEF IInv, TypeOK, Commit
<1>4. /\ Writes(c) /\ Kind(c) # "list"
      /\ (Kind(c) = "create" <=> threads[t].status = "none")
  BY <1>1 DEF IInv, InStep, UnderWay, Writes
<1>5. /\ raced \subseteq raced'
      /\ \A d \in Calls : Listing(d) /\ d # c => <<c, d>> \in raced'
  BY DEF Commit
<1>6. threads[t].status # "none" =>
        /\ threads'[t].customer = threads[t].customer
        /\ threads'[t].status # "none"
        /\ Decides(c) \/ threads'[t].status = threads[t].status
  BY <1>2, <1>3, <1>4, RowTypes DEF IInv, Written, Touched, Replied, Closed, ThreadRow,
     Decides, Writes, Kinds
<1>7. ASSUME NEW d \in Calls, Listing(d)', NEW o \in call'[d].found
      PROVE  o \in ThreadsFor(d)' \/ TakenOut(d, o)'
  <2>1. d # c /\ Listing(d) /\ o \in call[d].found
    BY <1>1, <1>4, <1>7 DEF Listing
  <2>2. CASE TakenOut(d, o)
    BY <1>5, <2>2 DEF TakenOut, ByStatus
  <2>3. CASE o \in ThreadsFor(d)
    <3>1. /\ o \in Calls /\ Committed(o) /\ Kind(o) = "create"
          /\ Matches(d, ThreadOf(o)) /\ ThreadOf(o) \in Threads
      BY <2>3, RowTypes DEF ThreadsFor, IInv
    <3>2. Committed(o)'
      BY <1>1, <3>1 DEF Committed
    <3>3. CASE Matches(d, ThreadOf(o))'
      BY <3>1, <3>2, <3>3 DEF ThreadsFor
    <3>4. CASE ~Matches(d, ThreadOf(o))'
      <4>1. ThreadOf(o) = t
        BY <1>3, <3>1, <3>4 DEF Matches
      <4>2. Decides(c) /\ ByStatus(d)
        BY <1>6, <3>1, <3>4, <4>1 DEF Matches, ByStatus
      <4>3. <<c, d>> \in raced'
        BY <1>5, <2>1
      <4>. QED
        BY <4>1, <4>2, <4>3 DEF TakenOut, ByStatus
    <3>. QED
      BY <3>3, <3>4
  <2>. QED
    BY <2>1, <2>2, <2>3 DEF Counted
<1>8. PagesKeepTheCount'
  <2>1. \A d \in Calls : Kind(d) = "list" => call'[d] = call[d]
    BY <1>1, <1>4
  <2>. QED
    BY <1>5, <2>1 DEF Counted, PagesKeepTheCount
<1>. QED
  BY <1>7, <1>8 DEF Counted

LEMMA NextCounted == IInv /\ Counted /\ [Next]_vars => Counted'
<1> SUFFICES ASSUME IInv, Counted, [Next]_vars
             PROVE  Counted'
  OBVIOUS
<1>1. CASE UNCHANGED vars
  <2>1. \A c \in Calls : Listing(c)' = Listing(c) /\ ThreadsFor(c)' = ThreadsFor(c)
    BY <1>1 DEF vars, Listing, ThreadsFor, Matches, Committed
  <2>2. \A c, o \in Calls : TakenOut(c, o)' = TakenOut(c, o)
    BY <1>1 DEF vars, TakenOut
  <2>3. \A c \in Calls : call'[c] = call[c] /\ call[c].found \subseteq Calls
    BY <1>1 DEF vars, IInv, TypeOK, CallState
  <2>4. PagesKeepTheCount'
    BY <1>1 DEF vars, Counted, PagesKeepTheCount
  <2>. QED
    BY <2>1, <2>2, <2>3, <2>4 DEF Counted
<1>. QED
  BY <1>1, QuietCounted, CommitCounted DEF Next, Step

LEMMA AlwaysCounted == Spec => []Counted
BY InitCounted, NextCounted, Invariance, PTL DEF Spec

----------------------------------------------------------------------------
(* Theorems *)

\* Every reachable state has the types TypeOK gives.
THEOREM SupportTypeCorrect == Spec => []TypeOK
<1>1. IInv => TypeOK
  BY DEF IInv
<1>. QED
  BY <1>1, Invariance, PTL

\* Whatever the number of requests, a conversation is written to after its closing
\* only by those whose check the closing overtook.
THEOREM ClosedUnlessOvertaken == Spec => []NothingAfterClose
<1>1. IInv => NothingAfterClose
  BY DEF IInv
<1>. QED
  BY <1>1, Invariance, PTL

\* A thread's row is the outcome of what its log dates last, unless that was
\* committed before a transaction with an earlier date.
THEOREM RowIsOfNewestWrite == Spec => []RowFollowsLog
<1>1. IInv => RowFollowsLog
  BY DEF IInv
<1>. QED
  BY <1>1, Invariance, PTL

\* Whatever is written between the two queries of an answer, a conversation has the
\* message it names as the last and the one it was asked to write, and neither a
\* conversation nor a list shows a customer anything of another's threads.
THEOREM AnswersAgree == Spec => []AnswersAreWhole
<1>1. Shown => AnswersAreWhole
  BY DEF Shown
<1>. QED
  BY <1>1, AlwaysShown, PTL

\* Whatever is asked for and whatever is written between the count of a list and its
\* page, the page is as long as the count lets its reader expect, unless the list is by
\* status and a reply or a closing has taken a counted thread out of it.
THEOREM PagesAreFull == Spec => []PagesKeepTheCount
<1>1. Counted => PagesKeepTheCount
  BY DEF Counted
<1>. QED
  BY <1>1, AlwaysCounted, PTL
=============================================================================
