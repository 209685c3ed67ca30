---------------------------- MODULE AccountsProofs ----------------------------
(***************************************************************************)
(* Proofs about Accounts, for any users, calls, offers and pool.           *)
(*                                                                         *)
(* A deletion is a script: each of its statements leaves something that no *)
(* later call undoes, and the next one relies on it.  So the invariant     *)
(* says, for each place of the script, what holds from there on: Hidden,   *)
(* Missed, Closed.  A call that was under way at the time may undo it, and *)
(* those overlap the deletion, which the history remembers.                *)
(***************************************************************************)
EXTENDS Accounts, SequenceTheorems, TLAPS

\* How many statements of its script a call has done or skipped, and those left then.
Done(c) == Len(Script[Kind(c)]) - Len(call[c].todo)
Rest(k, n) == SubSeq(Script[k], n + 1, Len(Script[k]))

Placed(c) ==
  /\ Done(c) \in 0 .. Len(Script[Kind(c)])
  /\ call[c].todo = Rest(Kind(c), Done(c))
  /\ UnderWay(c) <=> Done(c) < Len(Script[Kind(c)])

\* A login or a refresh whose user or token was found, with the role that it read.
InSession(c) == UnderWay(c) /\ Kind(c) \in {"Login", "Refresh"} /\ Done(c) >= 1

\* An approval or a rejection that found a vendor, an application that found one.
FoundVendor(c) ==
  \/ UnderWay(c) /\ Kind(c) \in {"ApproveVendor", "RejectVendor"} /\ Done(c) >= 2
  \/ UnderWay(c) /\ Kind(c) = "Apply" /\ Done(c) >= 1 /\ call[c].saw = "rejected"

StateOK ==
  /\ TypeOK
  /\ \A c \in Calls : IF Began(c) THEN Placed(c) ELSE ~Ended(c)
  /\ \A c \in Calls : InSession(c) => call[c].saw \in Roles
  /\ \A c \in Calls : FoundVendor(c) => vendors[UserOf(c)].status # "none"
  /\ \A u \in Users : ~vendors[u].live => vendors[u].status # "none"

\* Only a call that has ended comes before another; only it has left a token.
HistoryOK ==
  /\ \A c, d \in Calls : <<c, d>> \in before => Ended(c) /\ Began(c) /\ Began(d)
  /\ \A c \in Calls : tokens[c].status # "none" => Ended(c)
  /\ \A c \in Calls : Kind(c) \in {"Refresh", "Logout"} =>
       tokens[Thing(c)].status # "none" /\ tokens[Thing(c)].user = UserOf(c)

\* A refresh that is about to issue a token, or has, revoked the one it was given;
\* one that began after that is refused.
Spent(c) == Kind(c) = "Refresh" /\ ((UnderWay(c) /\ Done(c) = 2) \/ tokens[c].status # "none")

Rotations ==
  /\ \A c \in Calls : Spent(c) => tokens[Thing(c)].status = "revoked" \/ call[c].lost
  /\ \A c, d \in Calls :
       /\ <<c, d>> \in before
       /\ Spent(c) /\ ~call[c].lost
       /\ Kind(d) = "Refresh" /\ Thing(c) = Thing(d)
       => ~InSession(d) /\ tokens[d].status = "none"

Explained(x, d) == \E y \in Lineage(x) : y \in Calls /\ Overlap(y, d)

Deletes(d, u) == Kind(d) \in {"DeleteUser", "DeleteVendor"} /\ UserOf(d) = u

\* What the deletion of a vendor leaves the user.
Exempt(d, role) == Kind(d) = "DeleteVendor" /\ role = "buyer"

\* No session of the user's is left, but for those that come from a call that
\* overlaps d, and none can begin.
Closed(d) ==
  /\ \A x \in Things :
       tokens[x].status = "live" /\ tokens[x].user = UserOf(d) =>
         Exempt(d, tokens[x].role) \/ Explained(x, d)
  /\ \A e \in Calls :
       InSession(e) /\ UserOf(e) = UserOf(d) => Exempt(d, call[e].saw) \/ Explained(e, d)

PastRevoke(d) ==
  UnderWay(d) /\ \/ Kind(d) = "DeleteUser" /\ Done(d) >= 6
                 \/ Kind(d) = "DeleteVendor" /\ Done(d) >= 4

\* The user's sessions have the user's role.
SameRole(u) ==
  /\ \A x \in Things : tokens[x].status = "live" /\ tokens[x].user = u => tokens[x].role = users[u].role
  /\ \A e \in Calls : InSession(e) /\ UserOf(e) = u => call[e].saw = users[u].role

Sessions ==
  /\ \A d \in Calls : PastRevoke(d) => Closed(d)
  /\ \A u \in Users :
       users[u].live \/ \E d \in Calls : Kind(d) = "DeleteUser" /\ UserOf(d) = u /\ Closed(d)
  /\ \A u \in Users :
       \/ SameRole(u)
       \/ /\ users[u].role = "buyer"
          /\ \E d \in Calls : Kind(d) = "DeleteVendor" /\ UserOf(d) = u /\ Closed(d)

\* A vendor's request that found it approved.
Writing(c) == UnderWay(c) /\ Kind(c) \in {"CreateProduct", "UpdateProduct"} /\ Done(c) >= 1

\* No product of the user's is published, but by a call that overlaps d.
Hidden(d) ==
  /\ \A x \in Things :
       products[x].status = "published" /\ products[x].owner = UserOf(d) =>
         products[x].by \in Calls /\ Overlap(products[x].by, d)
  /\ \A w \in Calls : Writing(w) /\ UserOf(w) = UserOf(d) => Overlap(w, d)

PastUnpublish(d) ==
  UnderWay(d) /\ \/ Kind(d) = "DeleteUser" /\ Done(d) = 4
                 \/ Kind(d) = "DeleteVendor" /\ Done(d) \in 3 .. 4

\* The user has no vendor, or d did not find the one there is.
Missed(d) ==
  LET u == UserOf(d) IN
  HasVendor(u) => \/ call[d].lost
                  \/ vendors[u].by \in Calls /\ <<vendors[u].by, d>> \notin before

Shops ==
  /\ \A d \in Calls : PastUnpublish(d) => Hidden(d)
  /\ \A u \in Users : vendors[u].live \/ \E d \in Calls : Deletes(d, u) /\ Hidden(d)
  /\ \A d \in Calls : UnderWay(d) /\ Kind(d) = "DeleteUser" /\ Done(d) >= 5 => Missed(d)
  /\ \A u \in Users :
       users[u].live \/ \E d \in Calls : Kind(d) = "DeleteUser" /\ UserOf(d) = u /\ Missed(d)

\* Inductive: a call's place in its script says what it has done, and what it has done
\* stays true of the rows, but for what calls that overlap it do.
IInv == StateOK /\ HistoryOK /\ Rotations /\ Sessions /\ Shops
----------------------------------------------------------------------------
(* Scripts *)

LEMMA Scripts ==
  /\ Script["Login"] = <<"GetByEmail", "Issue">>
  /\ Script["Refresh"] = <<"IsValid", "Revoke", "Issue">>
  /\ Script["Logout"] = <<"Revoke">>
  /\ Script["LogoutUser"] = <<"Begin", "RevokeAll", "Commit">>
  /\ Script["LogoutVendor"] = <<"GetVendor", "Begin", "RevokeAll", "Commit">>
  /\ Script["DeleteUser"] = DeleteUser
  /\ Script["DeleteVendor"] = DeleteVendor
  /\ Script["ApproveVendor"] = <<"Begin", "SelectStatus", "SetStatus">>
  /\ Script["RejectVendor"] = <<"Begin", "SelectStatus", "SetStatus">>
  /\ Script["Apply"] = <<"GetByUserID", "WriteApplication">>
  /\ Script["CreateProduct"] = <<"GetByUserID", "WriteProduct">>
  /\ Script["UpdateProduct"] = <<"GetByUserID", "WriteProduct">>
  /\ Script["DropProduct"] = <<"GetByUserID", "WriteProduct">>
  /\ Script["DeleteProduct"] = <<"GetProduct", "WriteProduct">>
BY DEF Script

LEMMA KindsAre ==
  Kinds = {"Login", "Refresh", "Logout", "LogoutUser", "LogoutVendor", "DeleteUser", "DeleteVendor",
           "ApproveVendor", "RejectVendor", "Apply", "CreateProduct", "UpdateProduct", "DropProduct",
           "DeleteProduct"}
BY DEF Kinds, Script

\* A statement, and where in which scripts it is.
Place(k, i, s) ==
  CASE s = "GetByEmail"       -> k = "Login" /\ i = 1
    [] s = "IsValid"          -> k = "Refresh" /\ i = 1
    [] s = "Revoke"           -> (k = "Refresh" /\ i = 2) \/ (k = "Logout" /\ i = 1)
    [] s = "Issue"            -> (k = "Login" /\ i = 2) \/ (k = "Refresh" /\ i = 3)
    [] s = "RevokeAll"        -> \/ k \in {"LogoutUser", "LogoutVendor"}
                                 \/ (k = "DeleteUser" /\ i = 6) \/ (k = "DeleteVendor" /\ i = 4)
    [] s = "GetVendor"        -> k \in {"LogoutVendor", "DeleteVendor"} /\ i = 1
    [] s = "GetUser"          -> k = "DeleteUser" /\ i = 2
    [] s = "GetByUserID"      -> \/ k = "DeleteUser" /\ i = 3
                                 \/ k \in {"Apply", "CreateProduct", "UpdateProduct", "DropProduct"} /\ i = 1
    [] s = "WriteApplication" -> k = "Apply" /\ i = 2
    [] s = "SelectStatus"     -> k \in {"ApproveVendor", "RejectVendor"} /\ i = 2
    [] s = "SetStatus"        -> k \in {"ApproveVendor", "RejectVendor"} /\ i = 3
    [] s = "SoftDeleteVendor" -> k \in {"DeleteUser", "DeleteVendor"} /\ i = 5
    [] s = "SoftDeleteUser"   -> k = "DeleteUser" /\ i = 7
    [] s = "UpdateRole"       -> k = "DeleteVendor" /\ i = 6
    [] s = "GetProduct"       -> k = "DeleteProduct" /\ i = 1
    [] s = "Unpublish"        -> (k = "DeleteUser" /\ i = 4) \/ (k = "DeleteVendor" /\ i = 3)
    [] s = "WriteProduct"     -> k \in {"CreateProduct", "UpdateProduct", "DropProduct", "DeleteProduct"} /\ i = 2
    [] s = "Begin"            -> \/ k \in {"LogoutUser", "DeleteUser", "ApproveVendor", "RejectVendor"} /\ i = 1
                                 \/ k \in {"LogoutVendor", "DeleteVendor"} /\ i = 2
    [] s = "Commit"           -> \/ k = "LogoutUser" /\ i = 3
                                 \/ k = "LogoutVendor" /\ i = 4
                                 \/ k = "DeleteUser" /\ i = 8
                                 \/ k = "DeleteVendor" /\ i = 7
    [] OTHER                  -> FALSE

Length(k) ==
  CASE k = "Logout" -> 1
    [] k \in {"Login", "Apply", "CreateProduct", "UpdateProduct", "DropProduct", "DeleteProduct"} -> 2
    [] k \in {"Refresh", "LogoutUser", "ApproveVendor", "RejectVendor"} -> 3
    [] k = "LogoutVendor" -> 4
    [] k = "DeleteUser" -> 8
    [] OTHER -> 7

\* A tuple is a sequence, wherever each of its statements is.
IsScript(k) ==
  /\ Len(Script[k]) = Length(k)
  /\ DOMAIN Script[k] = 1 .. Length(k)
  /\ Script[k] = [i \in 1 .. Length(k) |-> Script[k][i]]
  /\ \A i \in 1 .. Length(k) : Place(k, i, Script[k][i])

LEMMA ScriptsAre == ASSUME NEW k \in Kinds PROVE IsScript(k)
<1>1. IsScript("Login")
  BY Scripts DEF IsScript, Place, Length
<1>2. IsScript("Refresh")
  BY Scripts DEF IsScript, Place, Length
<1>3. IsScript("Logout")
  BY Scripts DEF IsScript, Place, Length
<1>4. IsScript("LogoutUser")
  BY Scripts DEF IsScript, Place, Length
<1>5. IsScript("LogoutVendor")
  BY Scripts DEF IsScript, Place, Length
<1>6. IsScript("DeleteUser")
  BY Scripts DEF IsScript, Place, Length, DeleteUser
<1>7. IsScript("DeleteVendor")
  BY Scripts DEF IsScript, Place, Length, DeleteVendor
<1>8. IsScript("ApproveVendor")
  BY Scripts DEF IsScript, Place, Length
<1>9. IsScript("RejectVendor")
  BY Scripts DEF IsScript, Place, Length
<1>10. IsScript("Apply")
  BY Scripts DEF IsScript, Place, Length
<1>11. IsScript("CreateProduct")
  BY Scripts DEF IsScript, Place, Length
<1>12. IsScript("UpdateProduct")
  BY Scripts DEF IsScript, Place, Length
<1>13. IsScript("DropProduct")
  BY Scripts DEF IsScript, Place, Length
<1>14. IsScript("DeleteProduct")
  BY Scripts DEF IsScript, Place, Length
<1>. QED
  BY <1>1, <1>2, <1>3, <1>4, <1>5, <1>6, <1>7, <1>8, <1>9, <1>10, <1>11, <1>12, <1>13, <1>14, KindsAre

LEMMA ScriptsAreSequences ==
  ASSUME NEW k \in Kinds
  PROVE  Script[k] \in Seq(Statements) /\ Len(Script[k]) = Length(k) /\ Length(k) \in 1 .. 8
<1>1. Script[k] = [i \in 1 .. Length(k) |-> Script[k][i]] /\ DOMAIN Script[k] = 1 .. Length(k)
  BY ScriptsAre DEF IsScript
<1>2. \A i \in 1 .. Length(k) : Script[k][i] \in Range(Script[k])
  BY <1>1 DEF Range
<1>3. Length(k) \in 1 .. 8
  BY DEF Length
<1>4. Script[k] \in [1 .. Length(k) -> Statements]
  BY <1>1, <1>2 DEF Statements
<1>5. Script[k] \in Seq(Statements)
  BY <1>3, <1>4, SeqDef
<1>. QED
  BY <1>3, <1>5, ScriptsAre DEF IsScript

----------------------------------------------------------------------------
(* What a statement does to its call *)

Saws == Roles \union {"none", "pending", "approved", "rejected", "deleted"}

Ends == {"done", "refused", "failed"}

\* A call goes on, or ends; what it does stays, and what the others do.
Goes(c) ==
  /\ UnderWay(c)
  /\ call' \in [Calls -> CallState]
  /\ \A e \in Calls \ {c} : call'[e] = call[e]
  /\ Kind(c)' = Kind(c) /\ UserOf(c)' = UserOf(c) /\ Thing(c)' = Thing(c)
  /\ call[c].lost => call'[c].lost
  /\ Placed(c)'

LEMMA Places ==
  ASSUME NEW j \in Nat, NEW m \in Nat, NEW n \in Nat, NEW l, l = j - m, n > 0, n < l
  PROVE  LET i == m + 1 IN
         /\ i \in 1 .. j /\ j \in 1 .. j /\ n + 1 \in 1 .. j - i + 1 /\ l \in 1 .. j - i + 1
         /\ i + (n + 1) - 1 = m + n + 1 /\ i + l - 1 = j
         /\ m + n + 1 \in Int /\ j \in Int /\ m + n + 1 <= j /\ j - (m + n + 1) + 1 = j - (m + n)
         /\ m + n \in Nat /\ m + n < j /\ m + n + 1 .. j \subseteq 1 .. j
OBVIOUS

LEMMA RestOfRest ==
  ASSUME NEW S, NEW s \in Seq(S), NEW m \in Nat, NEW n \in Nat, NEW t,
         t = SubSeq(s, m + 1, Len(s)), Len(t) = Len(s) - m, n > 0, n < Len(t)
  PROVE  /\ SubSeq(t, n + 1, Len(t)) = SubSeq(s, m + n + 1, Len(s))
         /\ SubSeq(t, n + 1, Len(t)) \in Seq(S)
         /\ Len(SubSeq(t, n + 1, Len(t))) = Len(s) - (m + n)
         /\ m + n \in Nat /\ m + n < Len(s)
<1> DEFINE i == m + 1 j == Len(s) l == Len(t)
<1>1. Len(s) \in Nat
  BY LenProperties
<1>2. /\ i \in 1 .. j /\ j \in 1 .. j /\ n + 1 \in 1 .. j - i + 1 /\ l \in 1 .. j - i + 1
      /\ i + (n + 1) - 1 = m + n + 1 /\ i + l - 1 = j
      /\ m + n + 1 \in Int /\ j \in Int /\ m + n + 1 <= j /\ j - (m + n + 1) + 1 = j - (m + n)
      /\ m + n \in Nat /\ m + n < j /\ m + n + 1 .. j \subseteq 1 .. j
  BY <1>1, Places
<1> HIDE DEF i, j, l
<1>3. SubSeq(SubSeq(s, i, j), n + 1, l) = SubSeq(s, i + (n + 1) - 1, i + l - 1)
  <2> DEFINE x == n + 1
  <2>1. /\ i \in 1 .. Len(s) /\ j \in 1 .. Len(s)
        /\ x \in 1 .. j - i + 1 /\ l \in 1 .. j - i + 1
    BY <1>2 DEF j
  <2>2. \A a, b \in 1 .. Len(s) : \A y, z \in 1 .. b - a + 1 :
          SubSeq(SubSeq(s, a, b), y, z) = SubSeq(s, a + y - 1, a + z - 1)
    BY SubSeqOfSubSeq
  <2> HIDE DEF x
  <2>3. SubSeq(SubSeq(s, i, j), x, l) = SubSeq(s, i + x - 1, i + l - 1)
    BY <2>1, <2>2
  <2>. QED
    BY <2>3 DEF x
<1>4. SubSeq(t, n + 1, Len(t)) = SubSeq(s, m + n + 1, j)
  BY <1>2, <1>3 DEF i, j, l
<1>5. \A x \in m + n + 1 .. j : s[x] \in S
  <2>1. \A x \in 1 .. j : s[x] \in S
    BY ElementOfSeq DEF j
  <2>. QED
    BY <1>2, <2>1
<1>6. SubSeq(s, m + n + 1, j) \in Seq(S) /\ Len(SubSeq(s, m + n + 1, j)) = j - (m + n)
  BY <1>2, <1>5, SubSeqProperties
<1>. QED
  BY <1>2, <1>4, <1>6 DEF j

LEMMA CallParts ==
  ASSUME StateOK, NEW c \in Calls, Began(c)
  PROVE  /\ Kind(c) \in Kinds
         /\ call \in [Calls -> CallState] /\ call[c] \in CallState
         /\ Placed(c)
         /\ Script[Kind(c)] \in Seq(Statements) /\ Len(Script[Kind(c)]) = Length(Kind(c))
         /\ Length(Kind(c)) \in 1 .. 8 /\ Done(c) \in 0 .. Length(Kind(c))
         /\ Len(call[c].todo) = Length(Kind(c)) - Done(c)
<1>1. Kind(c) \in Kinds /\ call \in [Calls -> CallState] /\ call[c] \in CallState
  BY DEF StateOK, TypeOK, CallState, Began, Kind
<1>2. /\ Script[Kind(c)] \in Seq(Statements) /\ Len(Script[Kind(c)]) = Length(Kind(c))
      /\ Length(Kind(c)) \in 1 .. 8
  BY <1>1, ScriptsAreSequences
<1>3. Placed(c)
  BY DEF StateOK
<1>4. call[c].todo \in Seq(Statements)
  BY <1>1 DEF CallState
<1>5. Len(call[c].todo) \in Nat
  BY <1>4, LenProperties
<1>. QED
  BY <1>1, <1>2, <1>3, <1>5 DEF Placed, Done

\* The next statement of a call is the one after those it has done.
LEMMA Where ==
  ASSUME StateOK, NEW c \in Calls, NEW s, Reaches(c, s)
  PROVE  /\ UnderWay(c) /\ Began(c) /\ Kind(c) \in Kinds
         /\ Done(c) \in Nat /\ Done(c) < Length(Kind(c)) /\ Length(Kind(c)) \in 1 .. 8
         /\ Len(call[c].todo) = Length(Kind(c)) - Done(c)
         /\ Place(Kind(c), Done(c) + 1, s)
<1> DEFINE k == Kind(c) n == Done(c)
<1>1. UnderWay(c) /\ Began(c) /\ Head(call[c].todo) = s
  BY DEF Reaches, UnderWay
<1>2. /\ k \in Kinds /\ Placed(c)
      /\ Script[k] \in Seq(Statements) /\ Len(Script[k]) = Length(k)
      /\ Length(k) \in 1 .. 8 /\ n \in 0 .. Length(k)
      /\ Len(call[c].todo) = Length(k) - n
  BY <1>1, CallParts
<1>3. n < Length(k) /\ call[c].todo = SubSeq(Script[k], n + 1, Length(k))
  BY <1>1, <1>2 DEF Placed, Rest
<1>4. Head(SubSeq(Script[k], n + 1, Length(k))) = Script[k][n + 1]
  BY <1>2, <1>3, HeadTailOfSubSeq
<1>5. Place(k, n + 1, Script[k][n + 1])
  BY <1>2, <1>3, ScriptsAre DEF IsScript
<1>. QED
  BY <1>1, <1>2, <1>3, <1>4, <1>5

LEMMA EndGoes ==
  ASSUME StateOK, NEW c \in Calls, UnderWay(c), NEW how \in Ends, End(c, how)
  PROVE  Goes(c) /\ ~UnderWay(c)'
<1>1. /\ Kind(c) \in Kinds /\ call \in [Calls -> CallState] /\ call[c] \in CallState
      /\ Script[Kind(c)] \in Seq(Statements) /\ Len(Script[Kind(c)]) = Length(Kind(c))
      /\ Length(Kind(c)) \in 1 .. 8
  BY CallParts DEF UnderWay
<1> DEFINE row == [call[c] EXCEPT !.todo = <<>>, !.saw = "none", !.end = how]
<1>2. call' = [call EXCEPT ![c] = row]
  BY DEF End
<1>3. <<>> \in Seq(Statements) /\ Len(<<>>) = 0
  BY EmptySeq
<1>4. row \in CallState
  BY <1>1, <1>3 DEF CallState, Ends
<1>5. /\ row.kind = Kind(c) /\ row.user = UserOf(c) /\ row.thing = Thing(c)
      /\ row.lost = call[c].lost /\ row.todo = <<>> /\ row.end = how
  BY <1>1 DEF CallState, Kind, UserOf, Thing
<1> HIDE DEF row
<1>6. call'[c] = row /\ call' \in [Calls -> CallState] /\ \A e \in Calls \ {c} : call'[e] = call[e]
  BY <1>1, <1>2, <1>4
<1>7. /\ Kind(c)' = Kind(c) /\ UserOf(c)' = UserOf(c) /\ Thing(c)' = Thing(c)
      /\ call'[c].todo = <<>> /\ call'[c].end = how /\ call'[c].lost = call[c].lost
  BY <1>5, <1>6 DEF Kind, UserOf, Thing
<1>8. ~UnderWay(c)'
  BY <1>7 DEF UnderWay, Ends
<1>9. Done(c)' = Length(Kind(c))
  BY <1>1, <1>3, <1>7 DEF Done
<1>10. SubSeq(Script[Kind(c)], Length(Kind(c)) + 1, Length(Kind(c))) = <<>>
  BY <1>1, SubSeqEmpty
<1>11. Placed(c)'
  BY <1>1, <1>7, <1>8, <1>9, <1>10 DEF Placed, Rest
<1>. QED
  BY <1>6, <1>7, <1>8, <1>11 DEF Goes

\* n statements less are left.
LEMMA SkipGoes ==
  ASSUME StateOK, NEW c \in Calls, UnderWay(c), NEW n \in Nat, n > 0, n < Len(call[c].todo),
         NEW saw \in Saws, NEW lost \in BOOLEAN, call[c].lost => lost,
         call' = [call EXCEPT ![c].todo = SubSeq(@, n + 1, Len(@)), ![c].saw = saw, ![c].lost = lost]
  PROVE  /\ Goes(c) /\ UnderWay(c)' /\ Done(c)' = Done(c) + n
         /\ call'[c].saw = saw /\ call'[c].lost = lost
<1> DEFINE k == Kind(c)
           left == SubSeq(call[c].todo, n + 1, Len(call[c].todo))
           row == [call[c] EXCEPT !.todo = left, !.saw = saw, !.lost = lost]
<1>1. /\ k \in Kinds /\ call \in [Calls -> CallState] /\ call[c] \in CallState
      /\ Script[k] \in Seq(Statements) /\ Len(Script[k]) = Length(k)
      /\ Length(k) \in 1 .. 8 /\ Done(c) \in 0 .. Length(k) /\ Placed(c)
      /\ Len(call[c].todo) = Length(k) - Done(c)
  BY CallParts DEF UnderWay
<1>2. call' = [call EXCEPT ![c] = row]
  OBVIOUS
<1>3. call[c].todo = SubSeq(Script[k], Done(c) + 1, Length(k))
  BY <1>1 DEF Placed, Rest
<1>4. /\ left = SubSeq(Script[k], Done(c) + n + 1, Length(k))
      /\ left \in Seq(Statements) /\ Len(left) = Length(k) - (Done(c) + n)
      /\ Done(c) + n \in Nat /\ Done(c) + n < Length(k)
  <2> DEFINE s == Script[k] t == call[c].todo m == Done(c)
  <2>1. /\ s \in Seq(Statements) /\ m \in Nat /\ t = SubSeq(s, m + 1, Len(s))
        /\ Len(t) = Len(s) - m /\ n \in Nat /\ n > 0 /\ n < Len(t) /\ Len(s) = Length(k)
    BY <1>1, <1>3
  <2> HIDE DEF s, t, m
  <2>2. /\ SubSeq(t, n + 1, Len(t)) = SubSeq(s, m + n + 1, Len(s))
        /\ SubSeq(t, n + 1, Len(t)) \in Seq(Statements)
        /\ Len(SubSeq(t, n + 1, Len(t))) = Len(s) - (m + n)
        /\ m + n \in Nat /\ m + n < Len(s)
    BY ONLY <2>1, RestOfRest
  <2>. QED
    BY <2>1, <2>2 DEF s, t, m
<1>6. row \in CallState
  BY <1>1, <1>4 DEF CallState, Saws
<1>7. /\ row.kind = k /\ row.user = UserOf(c) /\ row.thing = Thing(c)
      /\ row.lost = lost /\ row.todo = left /\ row.end = call[c].end /\ row.saw = saw
  BY <1>1 DEF CallState, Kind, UserOf, Thing
<1> HIDE DEF row
<1>8. call'[c] = row /\ call' \in [Calls -> CallState] /\ \A e \in Calls \ {c} : call'[e] = call[e]
  BY <1>1, <1>2, <1>6
<1>9. /\ Kind(c)' = k /\ UserOf(c)' = UserOf(c) /\ Thing(c)' = Thing(c)
      /\ call'[c].todo = left /\ call'[c].end = call[c].end
      /\ call'[c].lost = lost /\ call'[c].saw = saw
  BY <1>7, <1>8 DEF Kind, UserOf, Thing
<1> HIDE DEF left
<1>10. UnderWay(c)'
  BY <1>9 DEF UnderWay, Began
<1>11. Done(c)' = Done(c) + n
  <2>1. Done(c)' = Len(Script[k]) - Len(left)
    BY <1>9 DEF Done
  <2>. QED
    BY <2>1, <1>1, <1>4
<1>12. Placed(c)'
  <2>1. Done(c)' \in 0 .. Len(Script[k]) /\ Done(c)' < Len(Script[k])
    BY <1>1, <1>4, <1>11
  <2>2. call'[c].todo = SubSeq(Script[k], Done(c)' + 1, Len(Script[k]))
    BY <1>1, <1>4, <1>9, <1>11
  <2> HIDE DEF k
  <2>. QED
    BY <1>9, <1>10, <2>1, <2>2 DEF Placed, Rest
<1>. QED
  BY <1>8, <1>9, <1>10, <1>11, <1>12 DEF Goes

LEMMA GoOnGoes ==
  ASSUME StateOK, NEW c \in Calls, UnderWay(c), NEW n \in Nat, n > 0, n <= Len(call[c].todo),
         NEW saw \in Saws, GoOn(c, n, saw)
  PROVE  /\ Goes(c) /\ call'[c].lost = call[c].lost
         /\ UnderWay(c)' => Done(c)' = Done(c) + n /\ call'[c].saw = saw
         /\ n < Len(call[c].todo) => UnderWay(c)'
<1>0. /\ call \in [Calls -> CallState] /\ call[c] \in CallState
      /\ Len(call[c].todo) \in Nat
  BY CallParts DEF UnderWay
<1>1. CASE n = Len(call[c].todo)
  <2>1. End(c, "done") /\ "done" \in Ends
    BY <1>1 DEF GoOn, Ends
  <2>2. Goes(c) /\ ~UnderWay(c)'
    BY <2>1, EndGoes
  <2>3. call'[c].lost = call[c].lost
    BY <2>1, <1>0 DEF End, CallState
  <2>. QED
    BY <1>1, <2>2, <2>3
<1>2. CASE n < Len(call[c].todo)
  <2>1. call' = [call EXCEPT ![c].todo = SubSeq(@, n + 1, Len(@)), ![c].saw = saw]
    <3>1. n # Len(call[c].todo)
      BY <1>2
    <3>. QED
      BY <3>1 DEF GoOn
  <2>2. call[c].lost \in BOOLEAN /\ [call[c] EXCEPT !.lost = call[c].lost] = call[c]
    BY <1>0 DEF CallState
  <2>3. call' = [call EXCEPT ![c].todo = SubSeq(@, n + 1, Len(@)), ![c].saw = saw, ![c].lost = call[c].lost]
    BY <1>0, <2>1, <2>2 DEF CallState
  <2>. QED
    BY <1>2, <2>2, <2>3, SkipGoes
<1>. QED
  BY <1>0, <1>1, <1>2

----------------------------------------------------------------------------
(* The steps of the calls *)

Step(c) == Statement(c) \/ Drop(c) \/ Fail(c)

\* Each statement by its place in its scripts.
LEMMA StatementsPlaced ==
  ASSUME StateOK, NEW c \in Calls
  PROVE  LET at(s) == UnderWay(c) /\ Place(Kind(c), Done(c) + 1, s) IN
         /\ (Begin(c) => at("Begin")) /\ (Commit(c) => at("Commit"))
         /\ (GetByEmail(c) => at("GetByEmail")) /\ (IsValid(c) => at("IsValid"))
         /\ (Revoke(c) => at("Revoke")) /\ (Issue(c) => at("Issue")) /\ (RevokeAll(c) => at("RevokeAll"))
         /\ (GetVendor(c) => at("GetVendor")) /\ (GetUser(c) => at("GetUser"))
         /\ (GetByUserID(c) => at("GetByUserID")) /\ (WriteApplication(c) => at("WriteApplication"))
         /\ (SelectStatus(c) => at("SelectStatus")) /\ (SetStatus(c) => at("SetStatus"))
         /\ (SoftDeleteVendor(c) => at("SoftDeleteVendor")) /\ (SoftDeleteUser(c) => at("SoftDeleteUser"))
         /\ (UpdateRole(c) => at("UpdateRole")) /\ (GetProduct(c) => at("GetProduct"))
         /\ (Unpublish(c) => at("Unpublish")) /\ (WriteProduct(c) => at("WriteProduct"))
<1>1. \A s : Reaches(c, s) => UnderWay(c) /\ Place(Kind(c), Done(c) + 1, s)
  BY Where
<1>2. /\ (Begin(c) => Reaches(c, "Begin")) /\ (Commit(c) => Reaches(c, "Commit"))
      /\ (GetByEmail(c) => Reaches(c, "GetByEmail")) /\ (IsValid(c) => Reaches(c, "IsValid"))
      /\ (Revoke(c) => Reaches(c, "Revoke")) /\ (Issue(c) => Reaches(c, "Issue"))
      /\ (RevokeAll(c) => Reaches(c, "RevokeAll"))
      /\ (GetVendor(c) => Reaches(c, "GetVendor")) /\ (GetUser(c) => Reaches(c, "GetUser"))
  BY DEF Begin, Commit, GetByEmail, IsValid, Revoke, Issue, RevokeAll, GetVendor, GetUser, Write, Query
<1>3. /\ (GetByUserID(c) => Reaches(c, "GetByUserID")) /\ (WriteApplication(c) => Reaches(c, "WriteApplication"))
      /\ (SelectStatus(c) => Reaches(c, "SelectStatus")) /\ (SetStatus(c) => Reaches(c, "SetStatus"))
      /\ (SoftDeleteVendor(c) => Reaches(c, "SoftDeleteVendor"))
      /\ (SoftDeleteUser(c) => Reaches(c, "SoftDeleteUser"))
      /\ (UpdateRole(c) => Reaches(c, "UpdateRole")) /\ (GetProduct(c) => Reaches(c, "GetProduct"))
      /\ (Unpublish(c) => Reaches(c, "Unpublish")) /\ (WriteProduct(c) => Reaches(c, "WriteProduct"))
  BY DEF GetByUserID, WriteApplication, SelectStatus, SetStatus, SoftDeleteVendor, SoftDeleteUser, UpdateRole,
         GetProduct, Unpublish, WriteProduct, Write, Query
<1>. QED
  BY <1>1, <1>2, <1>3

LEMMA WriteGoes ==
  ASSUME StateOK, NEW c \in Calls, NEW s, Write(c, s)
  PROVE  /\ Goes(c)
         /\ UnderWay(c)' => Done(c)' = Done(c) + 1 /\ call'[c].saw = call[c].saw
<1>1. Reaches(c, s) /\ GoOn(c, 1, call[c].saw)
  BY DEF Write
<1>2. UnderWay(c) /\ Began(c) /\ 1 <= Len(call[c].todo)
  BY <1>1, Where
<1>3. call[c].saw \in Saws
  BY <1>2, CallParts DEF CallState, Saws
<1>. QED
  BY <1>1, <1>2, <1>3, GoOnGoes

LEMMA QueryGoes ==
  ASSUME StateOK, NEW c \in Calls, NEW s, Reaches(c, s), NEW saw \in Saws,
         GoOn(c, 1, saw) \/ End(c, "refused")
  PROVE  /\ Goes(c)
         /\ UnderWay(c)' => GoOn(c, 1, saw) /\ Done(c)' = Done(c) + 1 /\ call'[c].saw = saw
<1>1. UnderWay(c) /\ 1 <= Len(call[c].todo)
  BY Where
<1>2. CASE GoOn(c, 1, saw)
  BY <1>1, <1>2, GoOnGoes
<1>3. CASE End(c, "refused")
  BY <1>1, <1>3, EndGoes DEF Ends
<1>. QED
  BY <1>2, <1>3

\* What a call has found when it goes on after a login's or a refresh's query.
LEMMA Found ==
  ASSUME StateOK, NEW c \in Calls
  PROVE  /\ GetByEmail(c) \/ IsValid(c) => Goes(c) /\ UNCHANGED <<rows, before>>
         /\ GetByEmail(c) /\ UnderWay(c)' =>
              /\ users[UserOf(c)].live /\ call'[c].saw = users[UserOf(c)].role
              /\ Done(c)' = Done(c) + 1
         /\ IsValid(c) /\ UnderWay(c)' =>
              /\ Valid(Thing(c)) /\ call'[c].saw = tokens[Thing(c)].role
              /\ Done(c)' = Done(c) + 1
<1>1. /\ users[UserOf(c)].role \in Saws /\ tokens[Thing(c)].role \in Saws /\ "none" \in Saws
      /\ call[c] \in CallState
  BY DEF StateOK, TypeOK, CallState, Saws, Roles, UserOf, Thing
<1>2. ASSUME GetByEmail(c)
      PROVE  /\ Goes(c) /\ UNCHANGED <<rows, before>>
             /\ UnderWay(c)' => /\ users[UserOf(c)].live /\ call'[c].saw = users[UserOf(c)].role
                                /\ Done(c)' = Done(c) + 1
  <2> DEFINE role == users[UserOf(c)].role
  <2>1. CASE Query(c, "GetByEmail", users[UserOf(c)].live, role)
    BY <1>1, <2>1, QueryGoes, EndGoes DEF Query, Reaches, Ends
  <2>2. CASE Query(c, "GetByEmail", FALSE, "none")
    BY <2>2, EndGoes DEF Query, Reaches, Ends
  <2>. QED
    BY <1>2, <2>1, <2>2 DEF GetByEmail
<1>3. ASSUME IsValid(c)
      PROVE  /\ Goes(c) /\ UNCHANGED <<rows, before>>
             /\ UnderWay(c)' => /\ Valid(Thing(c)) /\ call'[c].saw = tokens[Thing(c)].role
                                /\ Done(c)' = Done(c) + 1
  <2> DEFINE role == tokens[Thing(c)].role
  <2>1. CASE Query(c, "IsValid", Valid(Thing(c)), role)
    BY <1>1, <2>1, QueryGoes, EndGoes DEF Query, Reaches, Ends
  <2>2. CASE Query(c, "IsValid", FALSE, "none")
    BY <2>2, EndGoes DEF Query, Reaches, Ends
  <2>. QED
    BY <1>3, <2>1, <2>2 DEF IsValid
<1>. QED
  BY <1>2, <1>3

\* How much is left of a call at the statements that skip some, or end it.
LEMMA LeftAt ==
  ASSUME StateOK, NEW c \in Calls
  PROVE  /\ Reaches(c, "GetByUserID") /\ Kind(c) = "DeleteUser" => Done(c) = 2 /\ Len(call[c].todo) = 6
         /\ Reaches(c, "SelectStatus") => Len(call[c].todo) = 2
         /\ Reaches(c, "WriteApplication") \/ Reaches(c, "WriteProduct") \/ Reaches(c, "Issue") =>
              Len(call[c].todo) = 1
         /\ Reaches(c, "Revoke") /\ Kind(c) = "Refresh" => Done(c) = 1 /\ Len(call[c].todo) = 2
<1>1. \A s : Reaches(c, s) => /\ Done(c) \in Nat /\ Len(call[c].todo) = Length(Kind(c)) - Done(c)
                              /\ Place(Kind(c), Done(c) + 1, s)
  BY Where
<1>2. ASSUME Reaches(c, "GetByUserID"), Kind(c) = "DeleteUser"
      PROVE  Done(c) = 2 /\ Len(call[c].todo) = 6
  <2>1. /\ Done(c) \in Nat /\ Len(call[c].todo) = Length(Kind(c)) - Done(c)
        /\ Done(c) + 1 = 3 /\ Length(Kind(c)) = 8
    BY <1>1, <1>2 DEF Place, Length
  <2>. QED
    BY <2>1
<1>3. ASSUME Reaches(c, "SelectStatus")
      PROVE  Len(call[c].todo) = 2
  <2>1. /\ Done(c) \in Nat /\ Len(call[c].todo) = Length(Kind(c)) - Done(c)
        /\ Done(c) + 1 = 2 /\ Length(Kind(c)) = 3
    BY <1>1, <1>3 DEF Place, Length
  <2>. QED
    BY <2>1
<1>4. ASSUME Reaches(c, "WriteApplication") \/ Reaches(c, "WriteProduct") \/ Reaches(c, "Issue")
      PROVE  Len(call[c].todo) = 1
  <2>1. /\ Done(c) \in Nat /\ Len(call[c].todo) = Length(Kind(c)) - Done(c)
        /\ Done(c) + 1 = Length(Kind(c))
    BY <1>1, <1>4 DEF Place, Length
  <2>. QED
    BY <2>1
<1>5. ASSUME Reaches(c, "Revoke"), Kind(c) = "Refresh"
      PROVE  Done(c) = 1 /\ Len(call[c].todo) = 2
  <2>1. /\ Done(c) \in Nat /\ Len(call[c].todo) = Length(Kind(c)) - Done(c)
        /\ Done(c) + 1 = 2 /\ Length(Kind(c)) = 3
    BY <1>1, <1>5 DEF Place, Length
  <2>. QED
    BY <2>1
<1>. QED
  BY <1>2, <1>3, <1>4, <1>5

\* The other queries: a call that goes on after one has found what it asked for.
LEMMA FoundMore ==
  ASSUME StateOK, NEW c \in Calls
  PROVE  /\ GetVendor(c) \/ GetUser(c) \/ GetProduct(c) =>
              /\ Goes(c)
              /\ UnderWay(c)' => Done(c)' = Done(c) + 1 /\ call'[c].saw = "none"
         /\ GetByUserID(c) =>
              /\ Goes(c)
              /\ UnderWay(c)' /\ Kind(c) # "DeleteUser" => Done(c)' = Done(c) + 1
              /\ Kind(c) \in {"CreateProduct", "UpdateProduct"} /\ UnderWay(c)' => vendors[UserOf(c)].live
              /\ Kind(c) = "Apply" /\ UnderWay(c)' /\ call'[c].saw = "rejected" => HasVendor(UserOf(c))
              /\ Kind(c) = "DeleteUser" =>
                   \/ HasVendor(UserOf(c)) /\ UnderWay(c)' /\ Done(c)' = Done(c) + 1
                   \/ ~HasVendor(UserOf(c)) /\ UnderWay(c)' /\ Done(c)' = Done(c) + 3
         /\ SelectStatus(c) =>
              /\ Goes(c)
              /\ UnderWay(c)' => Done(c)' = Done(c) + 1 /\ vendors[UserOf(c)].status # "none"
<1>0. "none" \in Saws /\ "rejected" \in Saws
  BY DEF Saws
<1>1. ASSUME GetVendor(c) \/ GetUser(c) \/ GetProduct(c)
      PROVE  /\ Goes(c)
             /\ UnderWay(c)' => Done(c)' = Done(c) + 1 /\ call'[c].saw = "none"
  BY <1>0, <1>1, QueryGoes DEF GetVendor, GetUser, GetProduct, Query
<1>2. ASSUME GetByUserID(c), Kind(c) = "DeleteUser"
      PROVE  /\ Goes(c)
             /\ \/ HasVendor(UserOf(c)) /\ UnderWay(c)' /\ Done(c)' = Done(c) + 1
                \/ ~HasVendor(UserOf(c)) /\ UnderWay(c)' /\ Done(c)' = Done(c) + 3
  <2>1. Reaches(c, "GetByUserID") /\ GoOn(c, IF HasVendor(UserOf(c)) THEN 1 ELSE 3, "none")
    BY <1>2 DEF GetByUserID
  <2>2. UnderWay(c) /\ Done(c) = 2 /\ Len(call[c].todo) = 6
    BY <2>1, <1>2, LeftAt DEF Reaches
  <2>3. CASE HasVendor(UserOf(c))
    <3>1. GoOn(c, 1, "none")
      BY <2>1, <2>3
    <3>2. 1 \in Nat /\ 1 > 0 /\ 1 < Len(call[c].todo) /\ 1 <= Len(call[c].todo)
      BY <2>2
    <3>3. Goes(c) /\ UnderWay(c)' /\ Done(c)' = Done(c) + 1
      BY <1>0, <2>2, <3>1, <3>2, GoOnGoes
    <3>. QED
      BY <2>3, <3>3
  <2>4. CASE ~HasVendor(UserOf(c))
    <3>1. GoOn(c, 3, "none")
      BY <2>1, <2>4
    <3>2. 3 \in Nat /\ 3 > 0 /\ 3 < Len(call[c].todo) /\ 3 <= Len(call[c].todo)
      BY <2>2
    <3>3. Goes(c) /\ UnderWay(c)' /\ Done(c)' = Done(c) + 3
      BY <1>0, <2>2, <3>1, <3>2, GoOnGoes
    <3>. QED
      BY <2>4, <3>3
  <2>. QED
    BY <2>3, <2>4
<1>3. ASSUME GetByUserID(c), Kind(c) = "Apply"
      PROVE  /\ Goes(c)
             /\ UnderWay(c)' => Done(c)' = Done(c) + 1
             /\ UnderWay(c)' /\ call'[c].saw = "rejected" => HasVendor(UserOf(c))
  <2> DEFINE found == ~HasVendor(UserOf(c)) \/ vendors[UserOf(c)].status = "rejected"
             saw == IF HasVendor(UserOf(c)) THEN "rejected" ELSE "none"
  <2>1. saw \in Saws /\ (saw = "rejected" => HasVendor(UserOf(c)))
    BY <1>0
  <2>2. Reaches(c, "GetByUserID") /\ (GoOn(c, 1, saw) \/ End(c, "refused"))
    BY <1>3 DEF GetByUserID, Query
  <2> HIDE DEF saw
  <2>. QED
    BY <2>1, <2>2, QueryGoes
<1>4. ASSUME GetByUserID(c), Kind(c) \notin {"DeleteUser", "Apply"}
      PROVE  /\ Goes(c)
             /\ UnderWay(c)' => Done(c)' = Done(c) + 1 /\ vendors[UserOf(c)].live
  <2>1. /\ Reaches(c, "GetByUserID")
        /\ IF vendors[UserOf(c)].live /\ vendors[UserOf(c)].status = "approved"
           THEN GoOn(c, 1, "none") ELSE End(c, "refused")
    BY <1>4 DEF GetByUserID, Query
  <2>2. UnderWay(c)
    BY <2>1 DEF Reaches
  <2>3. CASE vendors[UserOf(c)].live
    BY <1>0, <2>1, <2>3, QueryGoes
  <2>4. CASE ~vendors[UserOf(c)].live
    BY <2>1, <2>2, <2>4, EndGoes DEF Ends
  <2>. QED
    BY <2>3, <2>4
<1>5. ASSUME SelectStatus(c)
      PROVE  /\ Goes(c)
             /\ UnderWay(c)' => Done(c)' = Done(c) + 1 /\ vendors[UserOf(c)].status # "none"
  <2> DEFINE status == vendors[UserOf(c)].status
  <2>1. /\ Reaches(c, "SelectStatus")
        /\ IF status = "none" THEN End(c, "refused") ELSE GoOn(c, IF status = Wanted(c) THEN 2 ELSE 1, status)
    BY <1>5 DEF SelectStatus
  <2>2. UnderWay(c) /\ Len(call[c].todo) = 2
    BY <2>1, LeftAt DEF Reaches
  <2>3. UserOf(c) \in Users /\ status \in Saws
    BY DEF StateOK, TypeOK, CallState, Saws, Roles, UserOf
  <2>4. CASE status = "none"
    BY <2>1, <2>2, <2>4, EndGoes DEF Ends
  <2>5. CASE status # "none" /\ status = Wanted(c)
    <3>1. GoOn(c, 2, status)
      BY <2>1, <2>5
    <3>2. End(c, "done")
      BY <2>2, <3>1 DEF GoOn
    <3>. QED
      BY <2>2, <3>2, EndGoes DEF Ends
  <2>6. CASE status # "none" /\ status # Wanted(c)
    <3>1. GoOn(c, 1, status)
      BY <2>1, <2>6
    <3> HIDE DEF status
    <3>2. Goes(c) /\ (UnderWay(c)' => Done(c)' = Done(c) + 1)
      BY <2>1, <2>3, <3>1, QueryGoes
    <3>. QED
      BY <2>6, <3>2 DEF status
  <2>. QED
    BY <2>4, <2>5, <2>6
<1>. QED
  BY <1>1, <1>2, <1>3, <1>4, <1>5

\* The last statement of a call ends it, and so does what fails.
LEMMA LastGoes ==
  ASSUME StateOK, NEW c \in Calls
  PROVE  /\ WriteApplication(c) \/ WriteProduct(c) \/ Fail(c) => Goes(c) /\ ~UnderWay(c)'
         /\ Issue(c) => Goes(c) /\ ~UnderWay(c)'
<1>0. "none" \in Saws /\ Ends = {"done", "refused", "failed"}
  BY DEF Saws, Ends
<1>1. ASSUME WriteApplication(c) \/ WriteProduct(c)
      PROVE  Goes(c) /\ ~UnderWay(c)'
  <2>1. /\ UnderWay(c) /\ Len(call[c].todo) = 1
    BY <1>1, LeftAt DEF Reaches, WriteApplication, WriteProduct
  <2>2. GoOn(c, 1, "none") \/ End(c, "failed") \/ End(c, "refused")
    BY <1>1 DEF WriteApplication, WriteProduct
  <2>3. GoOn(c, 1, "none") => End(c, "done")
    BY <2>1 DEF GoOn
  <2>. QED
    BY <1>0, <2>1, <2>2, <2>3, EndGoes
<1>2. ASSUME Fail(c)
      PROVE  Goes(c) /\ ~UnderWay(c)'
  BY <1>0, <1>2, EndGoes DEF Fail
<1>3. ASSUME Issue(c)
      PROVE  Goes(c) /\ ~UnderWay(c)'
  <2>1. UnderWay(c) /\ Len(call[c].todo) = 1
    BY <1>3, LeftAt DEF Reaches, Issue, Write
  <2>2. GoOn(c, 1, call[c].saw)
    BY <1>3 DEF Issue, Write
  <2>3. End(c, "done")
    BY <2>1, <2>2 DEF GoOn
  <2>. QED
    BY <1>0, <2>1, <2>3, EndGoes
<1>. QED
  BY <1>1, <1>2, <1>3

LEMMA DropGoes ==
  ASSUME StateOK, NEW c \in Calls, Drop(c)
  PROVE  /\ Goes(c) /\ UnderWay(c)' /\ call'[c].lost /\ call'[c].saw = call[c].saw
         /\ \/ Kind(c) = "Refresh" /\ Done(c) = 1 /\ Done(c)' = 2
            \/ Kind(c) = "DeleteUser" /\ Done(c) = 2 /\ Done(c)' = 5
         /\ UNCHANGED <<rows, before>>
<1>1. PICK n \in {1, 3} :
        /\ \/ n = 1 /\ Kind(c) = "Refresh" /\ Reaches(c, "Revoke")
           \/ n = 3 /\ Kind(c) = "DeleteUser" /\ Reaches(c, "GetByUserID")
        /\ call' = [call EXCEPT ![c].todo = SubSeq(@, n + 1, Len(@)), ![c].lost = TRUE]
  BY DEF Drop
<1>2. /\ UnderWay(c) /\ Began(c) /\ n < Len(call[c].todo)
      /\ \/ n = 1 /\ Kind(c) = "Refresh" /\ Done(c) = 1
         \/ n = 3 /\ Kind(c) = "DeleteUser" /\ Done(c) = 2
  <2>1. CASE n = 1 /\ Kind(c) = "Refresh" /\ Reaches(c, "Revoke")
    <3>1. Done(c) = 1 /\ Len(call[c].todo) = 2
      BY <2>1, LeftAt
    <3>. QED
      BY <2>1, <3>1 DEF Reaches, UnderWay
  <2>2. CASE n = 3 /\ Kind(c) = "DeleteUser" /\ Reaches(c, "GetByUserID")
    <3>1. Done(c) = 2 /\ Len(call[c].todo) = 6
      BY <2>2, LeftAt
    <3>. QED
      BY <2>2, <3>1 DEF Reaches, UnderWay
  <2>. QED
    BY <1>1, <2>1, <2>2
<1>3. call \in [Calls -> CallState] /\ call[c].saw \in Saws /\ call[c] \in CallState
  BY <1>2, CallParts DEF CallState, Saws
<1>4. call' = [call EXCEPT ![c].todo = SubSeq(@, n + 1, Len(@)), ![c].saw = call[c].saw, ![c].lost = TRUE]
  BY <1>1, <1>3 DEF CallState
<1>5. /\ Goes(c) /\ UnderWay(c)' /\ Done(c)' = Done(c) + n
      /\ call'[c].saw = call[c].saw /\ call'[c].lost = TRUE
  <2> DEFINE saw == call[c].saw
  <2>1. saw \in Saws /\ TRUE \in BOOLEAN /\ n \in Nat /\ n > 0
    BY <1>2, <1>3
  <2>2. call' = [call EXCEPT ![c].todo = SubSeq(@, n + 1, Len(@)), ![c].saw = saw, ![c].lost = TRUE]
    BY <1>4
  <2> HIDE DEF saw
  <2>3. /\ Goes(c) /\ UnderWay(c)' /\ Done(c)' = Done(c) + n
        /\ call'[c].saw = saw /\ call'[c].lost = TRUE
    BY <1>2, <2>1, <2>2, SkipGoes
  <2>. QED
    BY <2>3 DEF saw
<1>. QED
  BY <1>2, <1>5 DEF Drop

\* What a step writes, and that it goes on or ends.
LEMMA WhoWrites ==
  ASSUME NEW c \in Calls, Step(c)
  PROVE  /\ before' = before
         /\ tokens' = tokens \/ Issue(c) \/ Revoke(c) \/ RevokeAll(c)
         /\ users' = users \/ SoftDeleteUser(c) \/ UpdateRole(c)
         /\ vendors' = vendors \/ WriteApplication(c) \/ SetStatus(c) \/ SoftDeleteVendor(c)
         /\ products' = products \/ Unpublish(c) \/ WriteProduct(c)
<1>1. CASE Begin(c) \/ Commit(c) \/ GetByEmail(c) \/ IsValid(c) \/ GetVendor(c) \/ GetUser(c) \/ GetProduct(c)
  BY <1>1 DEF Begin, Commit, GetByEmail, IsValid, GetVendor, GetUser, GetProduct, Write, Query, rows
<1>2. CASE GetByUserID(c) \/ SelectStatus(c) \/ Drop(c) \/ Fail(c)
  BY <1>2 DEF GetByUserID, SelectStatus, Drop, Fail, Query, rows
<1>3. CASE Revoke(c) \/ Issue(c) \/ RevokeAll(c)
  BY <1>3 DEF Revoke, Issue, RevokeAll, Write
<1>4. CASE WriteApplication(c) \/ SetStatus(c) \/ SoftDeleteVendor(c) \/ SoftDeleteUser(c) \/ UpdateRole(c)
  BY <1>4 DEF WriteApplication, SetStatus, SoftDeleteVendor, SoftDeleteUser, UpdateRole, Write
<1>5. CASE Unpublish(c) \/ WriteProduct(c)
  BY <1>5 DEF Unpublish, WriteProduct, Write
<1>. QED
  BY <1>1, <1>2, <1>3, <1>4, <1>5 DEF Step, Statement

Writes(c) ==
  \/ Begin(c) \/ Commit(c) \/ Revoke(c) \/ RevokeAll(c) \/ SetStatus(c)
  \/ SoftDeleteVendor(c) \/ SoftDeleteUser(c) \/ UpdateRole(c) \/ Unpublish(c)

LEMMA WritesGo ==
  ASSUME StateOK, NEW c \in Calls, Writes(c)
  PROVE  Goes(c) /\ (UnderWay(c)' => Done(c)' = Done(c) + 1 /\ call'[c].saw = call[c].saw)
<1>1. PICK s : Write(c, s)
  BY DEF Writes, Begin, Commit, Revoke, RevokeAll, SetStatus, SoftDeleteVendor, SoftDeleteUser, UpdateRole,
         Unpublish
<1>. QED
  BY <1>1, WriteGoes

LEMMA StepGoes ==
  ASSUME StateOK, NEW c \in Calls, Step(c)
  PROVE  /\ Goes(c)
         /\ UnderWay(c)' => \/ Done(c)' = Done(c) + 1
                            \/ Kind(c) = "DeleteUser" /\ Done(c) = 2 /\ Done(c)' = 5
<1>1. CASE Writes(c)
  BY <1>1, WritesGo
<1>2. CASE GetByEmail(c) \/ IsValid(c)
  BY <1>2, Found
<1>3. CASE GetVendor(c) \/ GetUser(c) \/ GetProduct(c) \/ SelectStatus(c)
  BY <1>3, FoundMore
<1>4. CASE GetByUserID(c)
  <2>1. Kind(c) = "DeleteUser" => Done(c) = 2
    BY <1>4, LeftAt DEF GetByUserID
  <2>2. /\ Goes(c)
        /\ UnderWay(c)' => \/ Done(c)' = Done(c) + 1
                           \/ Kind(c) = "DeleteUser" /\ Done(c)' = Done(c) + 3
    BY <1>4, FoundMore
  <2>. QED
    BY <2>1, <2>2
<1>5. CASE WriteApplication(c) \/ WriteProduct(c) \/ Fail(c) \/ Issue(c)
  BY <1>5, LastGoes
<1>6. CASE Drop(c)
  BY <1>6, DropGoes
<1>. QED
  BY <1>1, <1>2, <1>3, <1>4, <1>5, <1>6 DEF Step, Statement, Writes

\* Which statement it was, when a call of some kinds goes on.
LEMMA WhoGoesOn ==
  ASSUME StateOK, NEW c \in Calls, Step(c), UnderWay(c)'
  PROVE  /\ Kind(c) = "Login" => GetByEmail(c) /\ Done(c) = 0
         /\ Kind(c) = "Refresh" =>
              \/ IsValid(c) /\ Done(c) = 0
              \/ (Revoke(c) \/ Drop(c)) /\ Done(c) = 1 /\ call'[c].saw = call[c].saw
         /\ Kind(c) \in {"CreateProduct", "UpdateProduct", "Apply"} => GetByUserID(c)
         /\ Kind(c) \in {"ApproveVendor", "RejectVendor"} => (Begin(c) /\ Done(c) = 0) \/ SelectStatus(c)
<1>1. Done(c) \in Nat /\ UnderWay(c) /\ Kind(c) \in Kinds
  <2>1. UnderWay(c) /\ Began(c)
    BY StepGoes DEF Goes, UnderWay
  <2>. QED
    BY <2>1, CallParts
<1>2. ~WriteApplication(c) /\ ~WriteProduct(c) /\ ~Fail(c) /\ ~Issue(c)
  BY LastGoes
<1>3. /\ Kind(c) \notin {"LogoutUser", "LogoutVendor", "DeleteUser", "DeleteVendor"} =>
           ~RevokeAll(c) /\ ~GetVendor(c) /\ ~GetUser(c) /\ ~Commit(c) /\ ~SoftDeleteVendor(c)
           /\ ~SoftDeleteUser(c) /\ ~UpdateRole(c) /\ ~Unpublish(c)
      /\ Kind(c) \notin {"ApproveVendor", "RejectVendor"} => ~SelectStatus(c) /\ ~SetStatus(c)
  BY StatementsPlaced DEF Place
<1>4. /\ Kind(c) # "Login" => ~GetByEmail(c)
      /\ Kind(c) # "Refresh" => ~IsValid(c)
      /\ Kind(c) \notin {"Refresh", "Logout"} => ~Revoke(c)
      /\ Kind(c) # "DeleteProduct" => ~GetProduct(c)
  BY StatementsPlaced, DropGoes DEF Place
<1>5. /\ Kind(c) \in {"Login", "Refresh", "CreateProduct", "UpdateProduct", "Apply"} => ~Begin(c)
      /\ Kind(c) \notin {"DeleteUser", "Apply", "CreateProduct", "UpdateProduct", "DropProduct"} => ~GetByUserID(c)
      /\ Kind(c) # "DeleteUser" /\ Kind(c) # "Refresh" => ~Drop(c)
  BY StatementsPlaced, DropGoes DEF Place
<1>6. /\ GetByEmail(c) => Done(c) = 0
      /\ IsValid(c) => Done(c) = 0
      /\ Revoke(c) /\ Kind(c) = "Refresh" => Done(c) = 1
      /\ Begin(c) /\ Kind(c) \in {"ApproveVendor", "RejectVendor"} => Done(c) = 0
      /\ Drop(c) /\ Kind(c) = "Refresh" => Done(c) = 1 /\ call'[c].saw = call[c].saw
  <2>1. /\ GetByEmail(c) => Done(c) + 1 = 1
        /\ IsValid(c) => Done(c) + 1 = 1
        /\ Revoke(c) /\ Kind(c) = "Refresh" => Done(c) + 1 = 2
        /\ Begin(c) /\ Kind(c) \in {"ApproveVendor", "RejectVendor"} => Done(c) + 1 = 1
    BY StatementsPlaced DEF Place
  <2>. QED
    BY <1>1, <2>1, DropGoes
<1>7. Revoke(c) => call'[c].saw = call[c].saw
  BY WritesGo DEF Writes
<1>8. SetStatus(c) => ~UnderWay(c)'
  <2> SUFFICES ASSUME SetStatus(c)
               PROVE  FALSE
    OBVIOUS
  <2>1. UnderWay(c) /\ Kind(c) \in {"ApproveVendor", "RejectVendor"} /\ Done(c) + 1 = 3
    BY StatementsPlaced DEF Place
  <2>2. Len(call[c].todo) = 1
    <3>1. Len(call[c].todo) = Length(Kind(c)) - Done(c)
      BY <2>1, CallParts DEF UnderWay
    <3>2. Length(Kind(c)) = 3 /\ Done(c) = 2
      BY <1>1, <2>1 DEF Length
    <3>. QED
      BY <3>1, <3>2
  <2>3. End(c, "done")
    BY <2>2 DEF SetStatus, Write, GoOn
  <2>. QED
    BY <2>1, <2>3, EndGoes DEF Ends
<1> HIDE DEF Kind
<1>. QED
  BY <1>2, <1>3, <1>4, <1>5, <1>6, <1>7, <1>8 DEF Step, Statement

----------------------------------------------------------------------------
(* What every step keeps *)

\* Nobody forgets what it does, and who came before whom is settled when a call begins.
Extends ==
  /\ \A e \in Calls : Began(e) =>
       /\ Kind(e)' = Kind(e) /\ UserOf(e)' = UserOf(e) /\ Thing(e)' = Thing(e) /\ Began(e)'
       /\ call[e].lost => call'[e].lost
  /\ \A e \in Calls : Ended(e) => call'[e] = call[e]
  /\ \A e, d \in Calls : Began(d) => (<<e, d>> \in before' <=> <<e, d>> \in before)

\* What a step of c leaves of the other calls.
LEMMA OthersStay ==
  ASSUME NEW e \in Calls, call'[e] = call[e]
  PROVE  /\ Kind(e)' = Kind(e) /\ UserOf(e)' = UserOf(e) /\ Thing(e)' = Thing(e)
         /\ Began(e)' = Began(e) /\ UnderWay(e)' = UnderWay(e) /\ Ended(e)' = Ended(e)
         /\ Done(e)' = Done(e) /\ Placed(e)' = Placed(e)
         /\ InSession(e)' = InSession(e) /\ Writing(e)' = Writing(e) /\ FoundVendor(e)' = FoundVendor(e)
         /\ PastRevoke(e)' = PastRevoke(e) /\ PastUnpublish(e)' = PastUnpublish(e)
<1>1. /\ Kind(e)' = Kind(e) /\ UserOf(e)' = UserOf(e) /\ Thing(e)' = Thing(e)
      /\ Began(e)' = Began(e) /\ UnderWay(e)' = UnderWay(e) /\ Ended(e)' = Ended(e)
  BY DEF Kind, UserOf, Thing, Began, UnderWay, Ended
<1>2. Done(e)' = Done(e)
  BY <1>1 DEF Done
<1>3. Placed(e)' = Placed(e)
  BY <1>1, <1>2 DEF Placed, Rest
<1>. QED
  BY <1>1, <1>2, <1>3 DEF InSession, Writing, FoundVendor, PastRevoke, PastUnpublish

\* The new call, at its first statement.
LEMMA ArriveGoes ==
  ASSUME StateOK, NEW c \in Calls, Arrive(c)
  PROVE  /\ ~Began(c) /\ Began(c)' /\ UnderWay(c)' /\ Done(c)' = 0 /\ Placed(c)'
         /\ call' \in [Calls -> CallState] /\ \A e \in Calls \ {c} : call'[e] = call[e]
         /\ Kind(c)' \in {"Refresh", "Logout"} =>
              tokens[Thing(c)'].status # "none" /\ tokens[Thing(c)'].user = UserOf(c)'
         /\ ~InSession(c)' /\ ~Writing(c)' /\ ~FoundVendor(c)' /\ ~PastRevoke(c)' /\ ~PastUnpublish(c)'
         /\ before' = before \union {<<d, c>> : d \in {e \in Calls : Ended(e)}}
         /\ UNCHANGED rows
<1>1. PICK k \in Offers[c] \cap Kinds, u \in Users, x \in Things :
        /\ k \in {"Refresh", "Logout"} => tokens[x].status # "none" /\ tokens[x].user = u
        /\ call' = [call EXCEPT ![c] = [kind |-> k, user |-> u, thing |-> x, todo |-> Script[k],
                                        saw |-> "none", end |-> "no", lost |-> FALSE]]
  BY DEF Arrive
<1> DEFINE row == [kind |-> k, user |-> u, thing |-> x, todo |-> Script[k],
                   saw |-> "none", end |-> "no", lost |-> FALSE]
<1>2. Script[k] \in Seq(Statements) /\ Len(Script[k]) = Length(k) /\ Length(k) \in 1 .. 8
  BY ScriptsAreSequences
<1>3. row \in CallState
  BY <1>2 DEF CallState
<1>4. row.kind = k /\ row.user = u /\ row.thing = x /\ row.todo = Script[k] /\ row.end = "no"
  OBVIOUS
<1> HIDE DEF row
<1>5. call \in [Calls -> CallState]
  BY DEF StateOK, TypeOK
<1>6. call'[c] = row /\ call' \in [Calls -> CallState] /\ \A e \in Calls \ {c} : call'[e] = call[e]
  BY <1>1, <1>3, <1>5 DEF row
<1>7. Kind(c)' = k /\ UserOf(c)' = u /\ Thing(c)' = x /\ call'[c].todo = Script[k] /\ call'[c].end = "no"
  BY <1>4, <1>6 DEF Kind, UserOf, Thing
<1>8. k # "none" /\ k \in Kinds
  BY KindsAre
<1>9. Began(c)' /\ UnderWay(c)'
  BY <1>7, <1>8 DEF Began, UnderWay
<1>10. Done(c)' = 0
  BY <1>2, <1>7 DEF Done
<1>11. Placed(c)'
  <2>1. SubSeq(Script[k], 0 + 1, Len(Script[k])) = Script[k]
    BY <1>2, SubSeqFull
  <2>. QED
    BY <1>2, <1>7, <1>9, <1>10, <2>1 DEF Placed, Rest
<1>12. ~InSession(c)' /\ ~Writing(c)' /\ ~FoundVendor(c)' /\ ~PastRevoke(c)' /\ ~PastUnpublish(c)'
  BY <1>10 DEF InSession, Writing, FoundVendor, PastRevoke, PastUnpublish
<1>. QED
  BY <1>1, <1>6, <1>7, <1>9, <1>10, <1>11, <1>12 DEF Arrive

LEMMA NextExtends ==
  ASSUME StateOK, [Next]_vars
  PROVE  Extends
<1>1. ASSUME NEW c \in Calls, Step(c)
      PROVE  Extends
  <2>1. Goes(c) /\ before' = before
    BY <1>1, StepGoes, WhoWrites
  <2>2. Began(c) /\ ~Ended(c) /\ Began(c)'
    BY <2>1 DEF Goes, UnderWay, Ended, Began
  <2>3. \A e \in Calls \ {c} : call'[e] = call[e]
    BY <2>1 DEF Goes
  <2>4. \A e \in Calls \ {c} : /\ Kind(e)' = Kind(e) /\ UserOf(e)' = UserOf(e) /\ Thing(e)' = Thing(e)
                               /\ Began(e)' = Began(e)
    BY <2>3, OthersStay
  <2>. QED
    BY <2>1, <2>2, <2>3, <2>4 DEF Extends, Goes
<1>2. ASSUME NEW c \in Calls, Arrive(c)
      PROVE  Extends
  <2>1. ~Began(c) /\ ~Ended(c)
    BY <1>2, ArriveGoes DEF StateOK
  <2>2. \A e \in Calls \ {c} : call'[e] = call[e]
    BY <1>2, ArriveGoes
  <2>3. \A e \in Calls \ {c} : /\ Kind(e)' = Kind(e) /\ UserOf(e)' = UserOf(e) /\ Thing(e)' = Thing(e)
                               /\ Began(e)' = Began(e)
    BY <2>2, OthersStay
  <2>4. \A e, d \in Calls : d # c => (<<e, d>> \in before' <=> <<e, d>> \in before)
    BY <1>2, ArriveGoes
  <2>. QED
    BY <2>1, <2>2, <2>3, <2>4 DEF Extends
<1>3. CASE UNCHANGED vars
  <2>1. call' = call /\ before' = before
    BY <1>3 DEF vars
  <2>2. \A e \in Calls : /\ Kind(e)' = Kind(e) /\ UserOf(e)' = UserOf(e) /\ Thing(e)' = Thing(e)
                         /\ Began(e)' = Began(e)
    BY <2>1, OthersStay
  <2>. QED
    BY <2>1, <2>2 DEF Extends
<1>. QED
  BY <1>1, <1>2, <1>3 DEF Next, Step

----------------------------------------------------------------------------
(* The state and the history stay well formed *)

\* A vendor that was inserted stays, and one that was deleted stays so.
VendorsStay ==
  \A u \in Users :
    /\ vendors[u].status # "none" => vendors'[u].status # "none"
    /\ ~vendors[u].live => ~vendors'[u].live
    /\ ~vendors'[u].live => vendors'[u].status # "none"

LEMMA CallFields ==
  ASSUME StateOK, NEW c \in Calls
  PROVE  UserOf(c) \in Users /\ Thing(c) \in Things /\ c \in Things
BY DEF StateOK, TypeOK, CallState, UserOf, Thing, Things

\* Only who is in a session gets to issue a token.
LEMMA IssuerInSession ==
  ASSUME StateOK, NEW c \in Calls, Issue(c)
  PROVE  /\ InSession(c) /\ call[c].saw \in Roles /\ (Kind(c) = "Refresh" => Done(c) = 2)
         /\ ~UnderWay(c)' /\ Ended(c)'
         /\ tokens' = [tokens EXCEPT ![c] = [user |-> UserOf(c), role |-> call[c].saw, status |-> "live"]]
<1>1. UnderWay(c) /\ Place(Kind(c), Done(c) + 1, "Issue") /\ Done(c) \in Nat
  <2>1. Reaches(c, "Issue")
    BY DEF Issue, Write
  <2>. QED
    BY <2>1, Where
<1>2. (Kind(c) = "Login" /\ Done(c) + 1 = 2) \/ (Kind(c) = "Refresh" /\ Done(c) + 1 = 3)
  BY <1>1 DEF Place
<1>3. InSession(c) /\ (Kind(c) = "Refresh" => Done(c) = 2)
  BY <1>1, <1>2 DEF InSession
<1>4. ~UnderWay(c)' /\ Began(c) /\ Kind(c)' = Kind(c)
  BY LastGoes, <1>1 DEF Goes, UnderWay
<1>5. Ended(c)'
  BY <1>4 DEF UnderWay, Ended, Began
<1>. QED
  BY <1>3, <1>4, <1>5 DEF StateOK, Issue

LEMMA TokensTyped ==
  ASSUME StateOK, NEW c \in Calls, Step(c)
  PROVE  tokens' \in [Things -> [user : Users, role : Roles, status : {"none", "live", "revoked"}]]
<1>0. tokens \in [Things -> [user : Users, role : Roles, status : {"none", "live", "revoked"}]]
  BY DEF StateOK, TypeOK
<1>1. CASE Issue(c)
  BY <1>0, <1>1, IssuerInSession, CallFields
<1>2. ASSUME NEW X, Revoked(X)
      PROVE  tokens' \in [Things -> [user : Users, role : Roles, status : {"none", "live", "revoked"}]]
  BY <1>0, <1>2 DEF Revoked
<1>. QED
  BY <1>0, <1>1, <1>2, WhoWrites DEF Revoke, RevokeAll

LEMMA UsersTyped ==
  ASSUME StateOK, NEW c \in Calls, Step(c)
  PROVE  users' \in [Users -> [role : Roles, live : BOOLEAN]]
<1>0. users \in [Users -> [role : Roles, live : BOOLEAN]] /\ UserOf(c) \in Users
  BY CallFields DEF StateOK, TypeOK
<1>1. CASE SoftDeleteUser(c)
  BY <1>0, <1>1 DEF SoftDeleteUser
<1>2. CASE UpdateRole(c)
  BY <1>0, <1>2 DEF UpdateRole, Roles
<1>. QED
  BY <1>0, <1>1, <1>2, WhoWrites

LEMMA ProductsTyped ==
  ASSUME StateOK, NEW c \in Calls, Step(c)
  PROVE  products' \in [Things -> [owner : Users, status : {"none", "draft", "published"}, by : Things]]
<1>0. /\ products \in [Things -> [owner : Users, status : {"none", "draft", "published"}, by : Things]]
      /\ UserOf(c) \in Users /\ c \in Things /\ Thing(c) \in Things
  BY CallFields DEF StateOK, TypeOK
<1>1. CASE Unpublish(c)
  BY <1>0, <1>1 DEF Unpublish
<1>2. CASE WriteProduct(c)
  BY <1>0, <1>2 DEF WriteProduct
<1>. QED
  BY <1>0, <1>1, <1>2, WhoWrites

\* The step of a vendor's row: what it was, a new status, deleted, or inserted.
LEMMA VendorsKept ==
  ASSUME StateOK, NEW c \in Calls, Step(c)
  PROVE  /\ vendors' \in [Users -> [status : {"none", "pending", "approved", "rejected", "deleted"},
                                    live : BOOLEAN, by : Things]]
         /\ VendorsStay
<1>0. /\ vendors \in [Users -> [status : {"none", "pending", "approved", "rejected", "deleted"},
                                live : BOOLEAN, by : Things]]
      /\ UserOf(c) \in Users /\ c \in Things
      /\ \A u \in Users : ~vendors[u].live => vendors[u].status # "none"
  BY CallFields DEF StateOK, TypeOK
<1>1. CASE vendors' = vendors
  BY <1>0, <1>1 DEF VendorsStay
<1>2. CASE WriteApplication(c) /\ vendors' # vendors
  <2>1. \/ /\ vendors[UserOf(c)].live
           /\ vendors' = [vendors EXCEPT ![UserOf(c)].status = "pending"]
        \/ /\ vendors[UserOf(c)].status = "none"
           /\ vendors' = [vendors EXCEPT ![UserOf(c)] = [status |-> "pending", live |-> TRUE, by |-> c]]
    BY <1>2 DEF WriteApplication
  <2>2. CASE vendors' = [vendors EXCEPT ![UserOf(c)].status = "pending"]
    BY <1>0, <2>2 DEF VendorsStay
  <2>3. CASE /\ vendors[UserOf(c)].status = "none"
             /\ vendors' = [vendors EXCEPT ![UserOf(c)] = [status |-> "pending", live |-> TRUE, by |-> c]]
    BY <1>0, <2>3 DEF VendorsStay
  <2>. QED
    BY <2>1, <2>2, <2>3
<1>3. CASE SetStatus(c)
  BY <1>0, <1>3 DEF SetStatus, Wanted, VendorsStay
<1>4. CASE SoftDeleteVendor(c)
  BY <1>0, <1>4 DEF SoftDeleteVendor, VendorsStay
<1>. QED
  BY <1>1, <1>2, <1>3, <1>4, WhoWrites

\* Whom a step finds in a session: one who was, or a user, or a token, that is valid now.
LEMMA SessionsBegin ==
  ASSUME StateOK, NEW c \in Calls, Step(c), InSession(c)'
  PROVE  \/ InSession(c) /\ call'[c].saw = call[c].saw
         \/ /\ UNCHANGED rows
            /\ \/ Kind(c) = "Login" /\ users[UserOf(c)].live /\ call'[c].saw = users[UserOf(c)].role
               \/ Kind(c) = "Refresh" /\ Valid(Thing(c)) /\ call'[c].saw = tokens[Thing(c)].role
<1>1. UnderWay(c)' /\ UnderWay(c) /\ Kind(c) \in {"Login", "Refresh"}
  BY StepGoes DEF InSession, Goes
<1>2. CASE GetByEmail(c) \/ IsValid(c)
  <2>1. /\ GetByEmail(c) => Kind(c) = "Login"
        /\ IsValid(c) => Kind(c) = "Refresh"
    BY StatementsPlaced DEF Place
  <2>. QED
    BY <1>1, <1>2, <2>1, Found
<1>3. CASE Done(c) = 1 /\ call'[c].saw = call[c].saw
  BY <1>1, <1>3 DEF InSession
<1>. QED
  BY <1>1, <1>2, <1>3, WhoGoesOn

LEMMA FoundVendors ==
  ASSUME StateOK, NEW c \in Calls, Step(c), FoundVendor(c)'
  PROVE  vendors[UserOf(c)].status # "none"
<1>1. UnderWay(c)' /\ UnderWay(c) /\ Kind(c)' = Kind(c)
  BY StepGoes DEF FoundVendor, Goes
<1>2. CASE Kind(c) \in {"ApproveVendor", "RejectVendor"}
  <2>1. (Begin(c) /\ Done(c) = 0) \/ SelectStatus(c)
    BY <1>1, <1>2, WhoGoesOn
  <2>2. CASE Begin(c) /\ Done(c) = 0
    <3>1. Done(c)' = 1
      BY <1>1, <2>2, WritesGo DEF Writes
    <3>. QED
      BY <1>1, <1>2, <3>1 DEF FoundVendor
  <2>. QED
    BY <1>1, <2>1, <2>2, FoundMore
<1>3. CASE Kind(c) = "Apply"
  <2>1. GetByUserID(c) /\ call'[c].saw = "rejected"
    BY <1>1, <1>3, WhoGoesOn DEF FoundVendor
  <2>. QED
    BY <1>1, <1>3, <2>1, FoundMore DEF HasVendor
<1>. QED
  BY <1>1, <1>2, <1>3 DEF FoundVendor

LEMMA StepStateOK ==
  ASSUME StateOK, NEW c \in Calls, Step(c)
  PROVE  StateOK'
<1>1. /\ UnderWay(c) /\ call' \in [Calls -> CallState] /\ Placed(c)' /\ before' = before
      /\ Kind(c)' = Kind(c) /\ UserOf(c)' = UserOf(c)
  BY StepGoes, WhoWrites DEF Goes
<1>2. \A e \in Calls \ {c} : call'[e] = call[e]
  BY StepGoes DEF Goes
<1>3. TypeOK'
  BY <1>1, TokensTyped, UsersTyped, ProductsTyped, VendorsKept DEF StateOK, TypeOK
<1>4. Began(c)'
  BY <1>1 DEF UnderWay, Began
<1>5. \A e \in Calls : (IF Began(e) THEN Placed(e) ELSE ~Ended(e))'
  <2>1. ASSUME NEW e \in Calls \ {c}
        PROVE  (IF Began(e) THEN Placed(e) ELSE ~Ended(e))'
    <3>1. Began(e)' = Began(e) /\ Placed(e)' = Placed(e) /\ Ended(e)' = Ended(e)
      BY <1>2, OthersStay
    <3>2. IF Began(e) THEN Placed(e) ELSE ~Ended(e)
      BY DEF StateOK
    <3>. QED
      BY <3>1, <3>2
  <2>. QED
    BY <1>1, <1>4, <2>1
<1>6. \A e \in Calls : InSession(e)' => call'[e].saw \in Roles
  <2>1. ASSUME NEW e \in Calls \ {c}, InSession(e)'
        PROVE  call'[e].saw \in Roles
    <3>1. InSession(e) /\ call'[e] = call[e]
      BY <1>2, <2>1, OthersStay
    <3>. QED
      BY <3>1 DEF StateOK
  <2>2. ASSUME InSession(c)'
        PROVE  call'[c].saw \in Roles
    <3>1. users[UserOf(c)].role \in Roles /\ tokens[Thing(c)].role \in Roles
      BY CallFields DEF StateOK, TypeOK
    <3>. QED
      BY <2>2, <3>1, SessionsBegin DEF StateOK
  <2>. QED
    BY <2>1, <2>2
<1>7. \A e \in Calls : FoundVendor(e)' => vendors'[UserOf(e)'].status # "none"
  <2>1. ASSUME NEW e \in Calls \ {c}, FoundVendor(e)'
        PROVE  vendors[UserOf(e)].status # "none" /\ UserOf(e)' = UserOf(e)
    <3>1. FoundVendor(e) /\ UserOf(e)' = UserOf(e)
      BY <1>2, <2>1, OthersStay
    <3>. QED
      BY <3>1 DEF StateOK
  <2>2. \A e \in Calls : UserOf(e) \in Users
    BY CallFields
  <2>. QED
    BY <1>1, <2>1, <2>2, FoundVendors, VendorsKept DEF VendorsStay
<1>8. \A u \in Users : ~vendors'[u].live => vendors'[u].status # "none"
  BY VendorsKept DEF VendorsStay
<1>. QED
  BY <1>3, <1>5, <1>6, <1>7, <1>8 DEF StateOK

LEMMA ArriveStateOK ==
  ASSUME StateOK, NEW c \in Calls, Arrive(c)
  PROVE  StateOK'
<1>1. /\ call' \in [Calls -> CallState] /\ \A e \in Calls \ {c} : call'[e] = call[e]
      /\ before' = before \union {<<d, c>> : d \in {e \in Calls : Ended(e)}}
      /\ UNCHANGED rows
      /\ Began(c)' /\ Placed(c)' /\ ~InSession(c)' /\ ~FoundVendor(c)'
  BY ArriveGoes
<1>2. users' = users /\ vendors' = vendors /\ tokens' = tokens /\ products' = products
  BY <1>1 DEF rows
<1>3. TypeOK'
  BY <1>1, <1>2 DEF StateOK, TypeOK
<1>4. \A e \in Calls : (IF Began(e) THEN Placed(e) ELSE ~Ended(e))'
  <2>1. ASSUME NEW e \in Calls \ {c}
        PROVE  (IF Began(e) THEN Placed(e) ELSE ~Ended(e))'
    <3>1. Began(e)' = Began(e) /\ Placed(e)' = Placed(e) /\ Ended(e)' = Ended(e)
      BY <1>1, OthersStay
    <3>2. IF Began(e) THEN Placed(e) ELSE ~Ended(e)
      BY DEF StateOK
    <3>. QED
      BY <3>1, <3>2
  <2>. QED
    BY <1>1, <2>1
<1>5. \A e \in Calls : /\ InSession(e)' => InSession(e) /\ call'[e] = call[e]
                       /\ FoundVendor(e)' => FoundVendor(e) /\ UserOf(e)' = UserOf(e)
  BY <1>1, OthersStay
<1>. QED
  BY <1>2, <1>3, <1>4, <1>5 DEF StateOK

LEMMA NextStateOK == StateOK /\ [Next]_vars => StateOK'
<1> SUFFICES ASSUME StateOK, [Next]_vars
             PROVE  StateOK'
  OBVIOUS
<1>1. CASE UNCHANGED vars
  <2>1. users' = users /\ vendors' = vendors /\ tokens' = tokens /\ products' = products
    BY <1>1 DEF vars, rows
  <2>2. call' = call /\ before' = before
    BY <1>1 DEF vars
  <2>3. TypeOK'
    BY <2>1, <2>2 DEF StateOK, TypeOK
  <2>4. ASSUME NEW e \in Calls
        PROVE  /\ UserOf(e)' = UserOf(e) /\ Began(e)' = Began(e) /\ Ended(e)' = Ended(e)
               /\ Placed(e)' = Placed(e)
               /\ InSession(e)' = InSession(e) /\ FoundVendor(e)' = FoundVendor(e)
    BY <2>2, OthersStay
  <2>. QED
    BY <2>1, <2>2, <2>3, <2>4 DEF StateOK
<1>. QED
  BY <1>1, StepStateOK, ArriveStateOK DEF Next, Step

LEMMA InitStateOK == Init => StateOK /\ (\A c \in Calls : ~Began(c) /\ ~UnderWay(c) /\ ~Ended(c))
<1> SUFFICES ASSUME Init
             PROVE  StateOK /\ \A c \in Calls : ~Began(c) /\ ~UnderWay(c) /\ ~Ended(c)
  OBVIOUS
<1> DEFINE u0 == CHOOSE u \in Users : TRUE
<1>1. u0 \in Users
  BY DEF Init
<1>2. call = [c \in Calls |-> [kind |-> "none", user |-> u0, thing |-> c,
                               todo |-> <<>>, saw |-> "none", end |-> "no", lost |-> FALSE]]
  BY DEF Init
<1> HIDE DEF u0
<1>3. <<>> \in Seq(Statements)
  BY EmptySeq
<1>4. call \in [Calls -> CallState]
  BY <1>1, <1>2, <1>3 DEF CallState, Things
<1>5. \A c \in Calls : ~Began(c) /\ ~UnderWay(c) /\ ~Ended(c)
  BY <1>2 DEF Began, UnderWay, Ended, Kind
<1>6. /\ users \in [Users -> [role : Roles, live : BOOLEAN]]
      /\ vendors \in [Users -> [status : {"none", "pending", "approved", "rejected", "deleted"},
                                live : BOOLEAN, by : Things]]
      /\ \A u \in Users : vendors[u].live
  BY DEF Init, Things
<1>7. /\ tokens \in [Things -> [user : Users, role : Roles, status : {"none", "live", "revoked"}]]
      /\ products \in [Things -> [owner : Users, status : {"none", "draft", "published"}, by : Things]]
  <2>1. PICK owner \in Users :
          /\ products = [x \in Things |-> [owner |-> owner, by |-> Old,
               status |-> IF x = Old /\ vendors[owner].status = "approved" THEN "published" ELSE "none"]]
          /\ tokens = [x \in Things |-> [user |-> owner, role |-> users[owner].role,
               status |-> IF x = Old THEN "live" ELSE "none"]]
    BY DEF Init
  <2>2. users[owner].role \in Roles /\ Old \in Things
    BY <1>6 DEF Things
  <2>3. tokens \in [Things -> [user : Users, role : Roles, status : {"none", "live", "revoked"}]]
    BY <2>1, <2>2
  <2>4. products \in [Things -> [owner : Users, status : {"none", "draft", "published"}, by : Things]]
    BY <2>1, <2>2
  <2>. QED
    BY <2>3, <2>4
<1>8. TypeOK
  BY <1>4, <1>6, <1>7 DEF TypeOK, Init
<1>. QED
  BY <1>5, <1>6, <1>8 DEF StateOK, InSession, FoundVendor

LEMMA InitHistoryOK == Init => HistoryOK
<1> SUFFICES ASSUME Init
             PROVE  HistoryOK
  OBVIOUS
<1>1. before = {} /\ \A c \in Calls : Kind(c) = "none"
  BY DEF Init, Kind
<1>2. \A c \in Calls : tokens[c].status = "none"
  BY CallsAssumption DEF Init, Things
<1>. QED
  BY <1>1, <1>2 DEF HistoryOK

\* A token that was issued stays issued, to the same user; a revoked one stays revoked.
LEMMA TokensStay ==
  ASSUME StateOK, HistoryOK, [Next]_vars, NEW x \in Things, tokens[x].status # "none"
  PROVE  /\ tokens'[x].status # "none" /\ tokens'[x].user = tokens[x].user
         /\ tokens'[x].role = tokens[x].role
         /\ tokens[x].status = "revoked" => tokens'[x].status = "revoked"
<1>0. tokens \in [Things -> [user : Users, role : Roles, status : {"none", "live", "revoked"}]]
  BY DEF StateOK, TypeOK
<1>1. ASSUME NEW c \in Calls, Issue(c)
      PROVE  tokens'[x] = tokens[x]
  <2>1. UnderWay(c)
    BY <1>1, IssuerInSession DEF InSession
  <2>2. x # c
    BY <2>1 DEF HistoryOK, UnderWay, Ended
  <2>. QED
    BY <1>0, <1>1, <2>2, IssuerInSession
<1>2. ASSUME NEW X, Revoked(X)
      PROVE  tokens'[x] = tokens[x] \/ tokens'[x] = [tokens[x] EXCEPT !.status = "revoked"]
  BY <1>2 DEF Revoked
<1>3. CASE tokens' = tokens
  BY <1>3
<1>4. tokens' = tokens \/ \E c \in Calls : Issue(c) \/ Revoke(c) \/ RevokeAll(c)
  <2>1. CASE UNCHANGED vars
    BY <2>1 DEF vars, rows
  <2>2. ASSUME NEW c \in Calls, Arrive(c)
        PROVE  tokens' = tokens
    BY <2>2 DEF Arrive, rows
  <2>. QED
    BY <2>1, <2>2, WhoWrites DEF Next, Step
<1>5. CASE tokens' # tokens
  <2>1. tokens'[x] = tokens[x] \/ tokens'[x] = [tokens[x] EXCEPT !.status = "revoked"]
    BY <1>1, <1>2, <1>4, <1>5 DEF Revoke, RevokeAll
  <2>2. tokens[x] \in [user : Users, role : Roles, status : {"none", "live", "revoked"}]
    BY <1>0
  <2>. QED
    BY <2>1, <2>2
<1>. QED
  BY <1>3, <1>5

LEMMA NextHistoryOK == StateOK /\ HistoryOK /\ [Next]_vars => HistoryOK'
<1> SUFFICES ASSUME StateOK, HistoryOK, [Next]_vars
             PROVE  HistoryOK'
  OBVIOUS
<1>0. Extends
  BY NextExtends
<1>1. \A e \in Calls : /\ Ended(e) => Ended(e)'
                       /\ Ended(e) => Began(e)
                       /\ Began(e) => Began(e)'
  BY <1>0 DEF Extends, Ended, StateOK
<1>2. \A e, d \in Calls : <<e, d>> \in before' => (Ended(e) /\ Began(e) /\ Began(d))'
  <2>1. ASSUME NEW c \in Calls, Arrive(c)
        PROVE  \A e, d \in Calls : <<e, d>> \in before' => (Ended(e) /\ Began(e) /\ Began(d))'
    <3>1. Began(c)' /\ before' = before \union {<<d, c>> : d \in {e \in Calls : Ended(e)}}
      BY <2>1, ArriveGoes
    <3>. QED
      BY <1>1, <3>1 DEF HistoryOK
  <2>2. CASE before' = before
    BY <1>1, <2>2 DEF HistoryOK
  <2>. QED
    BY <2>1, <2>2, WhoWrites DEF Next, Step, vars
<1>3. \A e \in Calls : tokens'[e].status # "none" => Ended(e)'
  <2> SUFFICES ASSUME NEW e \in Calls, tokens'[e].status # "none"
               PROVE  Ended(e)'
    OBVIOUS
  <2>1. CASE tokens[e].status # "none"
    BY <1>1, <2>1 DEF HistoryOK
  <2>2. CASE tokens[e].status = "none"
    <3>0. e \in Things /\ tokens \in [Things -> [user : Users, role : Roles, status : {"none", "live", "revoked"}]]
      BY CallFields DEF StateOK, TypeOK
    <3>1. ASSUME NEW X, Revoked(X)
          PROVE  FALSE
      BY <2>2, <3>0, <3>1 DEF Revoked
    <3>2. PICK c \in Calls : Step(c)
      BY <2>2 DEF Next, Step, Arrive, vars, rows
    <3>3. Issue(c)
      BY <2>2, <3>1, <3>2, WhoWrites DEF Revoke, RevokeAll
    <3>4. e = c
      BY <2>2, <3>0, <3>3, IssuerInSession
    <3>. QED
      BY <3>3, <3>4, IssuerInSession
  <2>. QED
    BY <2>1, <2>2
<1>4. \A e \in Calls : Kind(e)' \in {"Refresh", "Logout"} =>
        tokens'[Thing(e)'].status # "none" /\ tokens'[Thing(e)'].user = UserOf(e)'
  <2> SUFFICES ASSUME NEW e \in Calls, Kind(e)' \in {"Refresh", "Logout"}
               PROVE  tokens'[Thing(e)'].status # "none" /\ tokens'[Thing(e)'].user = UserOf(e)'
    OBVIOUS
  <2>1. CASE Began(e)
    <3>1. Kind(e)' = Kind(e) /\ Thing(e)' = Thing(e) /\ UserOf(e)' = UserOf(e) /\ Thing(e) \in Things
      BY <1>0, <2>1, CallFields DEF Extends
    <3>. QED
      BY <3>1, TokensStay DEF HistoryOK
  <2>2. CASE ~Began(e)
    <3>1. Kind(e)' # Kind(e)
      BY <2>2 DEF Began
    <3>2. Arrive(e)
      <4>1. ASSUME NEW c \in Calls, c # e, Step(c) \/ Arrive(c)
            PROVE  FALSE
        BY <3>1, <4>1, StepGoes, ArriveGoes, OthersStay DEF Goes
      <4>2. ~Step(e)
        BY <3>1, StepGoes DEF Goes
      <4>3. ~UNCHANGED vars
        BY <3>1 DEF vars, Kind
      <4>. QED
        BY <4>1, <4>2, <4>3 DEF Next, Step
    <3>3. tokens' = tokens
      BY <3>2 DEF Arrive, rows
    <3>. QED
      BY <3>2, <3>3, ArriveGoes
  <2>. QED
    BY <2>1, <2>2
<1>. QED
  BY <1>2, <1>3, <1>4 DEF HistoryOK

----------------------------------------------------------------------------
(* Rotations *)

\* What a refresh that has its new token, or is about to, has done.
LEMMA SpentSince ==
  ASSUME StateOK, HistoryOK, [Next]_vars, NEW c \in Calls, Spent(c)', ~Spent(c)
  PROVE  /\ UnderWay(c) /\ Kind(c) = "Refresh" /\ Kind(c)' = Kind(c) /\ Thing(c)' = Thing(c)
         /\ tokens'[Thing(c)].status = "revoked" \/ call'[c].lost
<1>1. Kind(c)' = "Refresh"
  BY DEF Spent
<1>2. c \in Things /\ Thing(c) \in Things
      /\ tokens \in [Things -> [user : Users, role : Roles, status : {"none", "live", "revoked"}]]
  BY CallFields DEF StateOK, TypeOK
<1>3. Step(c)
  <2>1. ASSUME call'[c] = call[c], tokens'[c].status = tokens[c].status
        PROVE  FALSE
    BY <2>1, OthersStay DEF Spent
  <2>2. ASSUME NEW e \in Calls \ {c}, Step(e)
        PROVE  \/ call'[c] = call[c] /\ tokens'[c].status = tokens[c].status
               \/ Spent(c)
    <3>1. call'[c] = call[c]
      BY <2>2, StepGoes DEF Goes
    <3>2. CASE tokens[c].status = "none"
      <4>1. ASSUME NEW X, Revoked(X)
            PROVE  tokens'[c].status = tokens[c].status
        BY <1>2, <3>2, <4>1 DEF Revoked
      <4>2. Issue(e) => tokens'[c] = tokens[c]
        BY <1>2, <2>2, IssuerInSession
      <4>. QED
        BY <2>2, <3>1, <4>1, <4>2, WhoWrites DEF Revoke, RevokeAll
    <3>3. CASE tokens[c].status # "none"
      <4>1. Kind(c)' = Kind(c)
        BY <3>1, OthersStay
      <4>. QED
        BY <1>1, <3>3, <4>1 DEF Spent
    <3>. QED
      BY <3>2, <3>3
  <2>3. ASSUME NEW e \in Calls, Arrive(e)
        PROVE  FALSE
    <3>1. tokens' = tokens
      BY <2>3 DEF Arrive, rows
    <3>2. c = e
      BY <2>1, <2>3, <3>1, ArriveGoes
    <3>3. Done(c)' = 0 /\ ~Began(c)
      BY <2>3, <3>2, ArriveGoes
    <3>4. tokens[c].status = "none"
      BY <3>3 DEF HistoryOK, StateOK
    <3>. QED
      BY <3>1, <3>3, <3>4 DEF Spent
  <2>4. CASE UNCHANGED vars
    BY <2>1, <2>4 DEF vars, rows
  <2>. QED
    BY <2>1, <2>2, <2>3, <2>4 DEF Next, Step
<1>4. UnderWay(c) /\ Kind(c) = "Refresh" /\ Kind(c)' = Kind(c) /\ Thing(c)' = Thing(c)
  BY <1>1, <1>3, StepGoes DEF Goes
<1>5. tokens[c].status = "none"
  BY <1>4 DEF Spent
<1>6. ~Issue(c)
  <2>1. Issue(c) => Done(c) = 2
    BY <1>4, IssuerInSession
  <2>. QED
    BY <1>4, <2>1 DEF Spent
<1>7. tokens'[c].status = "none"
  <2>1. ASSUME NEW X, Revoked(X)
        PROVE  tokens'[c].status = "none"
    BY <1>2, <1>5, <2>1 DEF Revoked
  <2>. QED
    BY <1>3, <1>5, <1>6, <2>1, WhoWrites DEF Revoke, RevokeAll
<1>8. UnderWay(c)' /\ Done(c)' = 2
  BY <1>7 DEF Spent
<1>9. CASE Drop(c)
  BY <1>4, <1>9, DropGoes
<1>10. CASE Revoke(c)
  <2>1. tokens[Thing(c)].status # "none"
    BY <1>4 DEF HistoryOK
  <2>2. Revoked({Thing(c)})
    BY <1>10 DEF Revoke
  <2>3. tokens'[Thing(c)].status = "revoked"
    BY <1>2, <2>1, <2>2 DEF Revoked
  <2>. QED
    BY <1>4, <2>3
<1>11. ~IsValid(c)
  <2>1. IsValid(c) => Done(c)' = Done(c) + 1
    BY <1>8, Found
  <2>2. IsValid(c) => Done(c) + 1 = 1
    BY StatementsPlaced DEF Place
  <2>. QED
    BY <1>8, <2>1, <2>2
<1>. QED
  BY <1>3, <1>4, <1>8, <1>9, <1>10, <1>11, WhoGoesOn

LEMMA NextRotations == StateOK /\ HistoryOK /\ Rotations /\ [Next]_vars => Rotations'
<1> SUFFICES ASSUME StateOK, HistoryOK, Rotations, [Next]_vars
             PROVE  Rotations'
  OBVIOUS
<1>0. Extends
  BY NextExtends
<1>1. ASSUME NEW c \in Calls, Spent(c)
      PROVE  /\ Began(c) /\ Kind(c) = "Refresh" /\ Kind(c)' = Kind(c) /\ Thing(c)' = Thing(c)
             /\ tokens[Thing(c)].status = "revoked" => tokens'[Thing(c)].status = "revoked"
             /\ call[c].lost => call'[c].lost
  <2>1. Began(c) /\ Kind(c) = "Refresh"
    BY <1>1 DEF Spent, Began
  <2>. QED
    BY <1>0, <2>1, TokensStay, CallFields DEF Extends, HistoryOK
<1>2. ASSUME NEW c \in Calls, Spent(c)'
      PROVE  tokens'[Thing(c)'].status = "revoked" \/ call'[c].lost
  BY <1>1, <1>2, SpentSince DEF Rotations
<1>3. ASSUME NEW c \in Calls, NEW d \in Calls,
             <<c, d>> \in before', Spent(c)', ~call'[c].lost, Kind(d)' = "Refresh", Thing(c)' = Thing(d)'
      PROVE  ~InSession(d)' /\ tokens'[d].status = "none"
  <2>0. /\ c \in Things /\ d \in Things /\ Thing(d) \in Things
        /\ tokens \in [Things -> [user : Users, role : Roles, status : {"none", "live", "revoked"}]]
    BY CallFields DEF StateOK, TypeOK
  <2>1. ASSUME NEW e \in Calls, Arrive(e), e = d
        PROVE  ~InSession(d)' /\ tokens'[d].status = "none"
    <3>1. ~Began(d) /\ ~InSession(d)' /\ tokens' = tokens
      BY <2>1, ArriveGoes DEF rows
    <3>2. tokens[d].status = "none"
      BY <3>1 DEF HistoryOK, StateOK
    <3>. QED
      BY <3>1, <3>2
  <2>2. CASE <<c, d>> \in before
    <3>1. Ended(c) /\ Began(c) /\ Began(d)
      BY <2>2 DEF HistoryOK
    <3>2. Spent(c)
      <4>1. ~UnderWay(c)
        BY <3>1 DEF UnderWay, Ended
      <4>. QED
        BY <1>3, <4>1, SpentSince
    <3>3. /\ ~call[c].lost /\ Kind(d) = "Refresh" /\ Kind(d)' = Kind(d) /\ Thing(d)' = Thing(d)
          /\ Thing(c) = Thing(d)
      BY <1>0, <1>1, <1>3, <3>1, <3>2 DEF Extends
    <3>4. ~InSession(d) /\ tokens[d].status = "none" /\ tokens[Thing(d)].status = "revoked"
      BY <2>2, <3>2, <3>3 DEF Rotations
    <3>5. ASSUME InSession(d)'
          PROVE  FALSE
      <4>1. Step(d)
        <5>1. call'[d] # call[d]
          BY <3>4, <3>5, OthersStay
        <5>2. ASSUME NEW e \in Calls, Step(e)
              PROVE  e = d
          BY <5>1, <5>2, StepGoes DEF Goes
        <5>3. ASSUME NEW e \in Calls, Arrive(e)
              PROVE  FALSE
          BY <3>1, <5>1, <5>3, ArriveGoes
        <5>. QED
          BY <5>1, <5>2, <5>3 DEF Next, Step, vars
      <4>. QED
        BY <3>3, <3>4, <3>5, <4>1, SessionsBegin DEF Valid
    <3>6. tokens'[d].status = "none"
      <4>1. ASSUME NEW X, Revoked(X)
            PROVE  tokens'[d].status = "none"
        BY <2>0, <3>4, <4>1 DEF Revoked
      <4>2. ASSUME NEW e \in Calls, Issue(e)
            PROVE  e # d /\ tokens'[d] = tokens[d]
        BY <2>0, <3>4, <4>2, IssuerInSession
      <4>3. ASSUME NEW e \in Calls, Step(e)
            PROVE  tokens'[d].status = "none"
        BY <3>4, <4>1, <4>2, <4>3, WhoWrites DEF Revoke, RevokeAll
      <4>. QED
        BY <3>4, <4>3 DEF Next, Step, Arrive, vars, rows
    <3>. QED
      BY <3>5, <3>6
  <2>3. CASE <<c, d>> \notin before
    <3>1. PICK e \in Calls : Arrive(e)
      BY <1>3, <2>3, WhoWrites DEF Next, Step, vars
    <3>2. e = d
      BY <1>3, <2>3, <3>1, ArriveGoes
    <3>. QED
      BY <2>1, <3>1, <3>2
  <2>. QED
    BY <2>2, <2>3
<1>. QED
  BY <1>2, <1>3 DEF Rotations

LEMMA InitRotations == Init => Rotations
<1> SUFFICES ASSUME Init
             PROVE  Rotations
  OBVIOUS
<1>. QED
  BY DEF Init, Rotations, Spent, Kind

LEMMA RotatedOnceHolds == StateOK /\ HistoryOK /\ Rotations => RotatedOnce
<1> SUFFICES ASSUME StateOK, HistoryOK, Rotations,
                    NEW c \in Calls, NEW d \in Calls, c # d,
                    Kind(c) = "Refresh", Kind(d) = "Refresh", Thing(c) = Thing(d),
                    tokens[c].status # "none", tokens[d].status # "none",
                    ~call[c].lost, ~call[d].lost
             PROVE  Overlap(c, d)
  BY DEF RotatedOnce
<1>1. Began(c) /\ Began(d) /\ Spent(c) /\ Spent(d)
  BY DEF Began, Spent
<1>. QED
  BY <1>1 DEF Overlap, Rotations

----------------------------------------------------------------------------
(* Who explains what *)

LEMMA OverlapStays ==
  ASSUME Extends, NEW e \in Calls, NEW d \in Calls, Overlap(e, d)
  PROVE  Overlap(e, d)'
BY DEF Extends, Overlap

LEMMA LineageGrows ==
  ASSUME Extends, NEW x \in Things, NEW y \in Lineage(x)
  PROVE  y \in Lineage(x)'
<1>1. ASSUME NEW S \in SUBSET Things, x \in S,
             \A c \in S \cap Calls : Kind(c)' = "Refresh" => Thing(c)' \in S
      PROVE  y \in S
  <2>1. \A c \in S \cap Calls : Kind(c) = "Refresh" => Thing(c) \in S
    BY <1>1 DEF Extends, Began
  <2>. QED
    BY <1>1, <2>1 DEF Lineage
<1>2. y \in Things
  BY DEF Lineage
<1>. QED
  BY <1>1, <1>2 DEF Lineage

LEMMA ExplainedStays ==
  ASSUME Extends, NEW x \in Things, NEW d \in Calls, Explained(x, d)
  PROVE  Explained(x, d)'
BY LineageGrows, OverlapStays DEF Explained

\* A call explains itself, and what the token it exchanges has explained.
LEMMA ExplainedBy ==
  ASSUME NEW e \in Calls, NEW d \in Calls
  PROVE  /\ Overlap(e, d) => Explained(e, d)
         /\ Kind(e) = "Refresh" /\ Explained(Thing(e), d) => Explained(e, d)
<1>1. e \in Lineage(e)
  BY DEF Lineage, Things
<1>2. ASSUME Kind(e) = "Refresh", NEW y \in Lineage(Thing(e))
      PROVE  y \in Lineage(e)
  <2>1. y \in Things
    BY <1>2 DEF Lineage
  <2>2. ASSUME NEW S \in SUBSET Things, e \in S,
               \A c \in S \cap Calls : Kind(c) = "Refresh" => Thing(c) \in S
        PROVE  y \in S
    <3>1. Thing(e) \in S
      BY <1>2, <2>2
    <3>. QED
      BY <1>2, <2>2, <3>1 DEF Lineage
  <2>. QED
    BY <2>1, <2>2 DEF Lineage
<1>. QED
  BY <1>1, <1>2 DEF Explained

LEMMA TogetherOverlap ==
  ASSUME HistoryOK, NEW e \in Calls, NEW d \in Calls, UnderWay(e), UnderWay(d)
  PROVE  Overlap(e, d)
BY DEF HistoryOK, Overlap, UnderWay, Ended

----------------------------------------------------------------------------
(* Sessions *)

LEMMA LiveTokens ==
  ASSUME StateOK, HistoryOK, [Next]_vars, NEW x \in Things, tokens'[x].status = "live"
  PROVE  \/ tokens[x].status = "live" /\ tokens'[x] = tokens[x]
         \/ /\ x \in Calls /\ InSession(x) /\ call[x].saw \in Roles
            /\ tokens'[x].user = UserOf(x) /\ tokens'[x].role = call[x].saw
<1>0. tokens \in [Things -> [user : Users, role : Roles, status : {"none", "live", "revoked"}]]
  BY DEF StateOK, TypeOK
<1>1. ASSUME NEW X, Revoked(X)
      PROVE  tokens[x].status = "live" /\ tokens'[x] = tokens[x]
  <2>1. tokens'[x] = IF x \in X /\ tokens[x].status = "live"
                     THEN [tokens[x] EXCEPT !.status = "revoked"] ELSE tokens[x]
    BY <1>1 DEF Revoked
  <2>2. tokens[x] \in [user : Users, role : Roles, status : {"none", "live", "revoked"}]
    BY <1>0
  <2>. QED
    BY <2>1, <2>2
<1>2. ASSUME NEW c \in Calls, Issue(c)
      PROVE  \/ tokens'[x] = tokens[x]
             \/ /\ x \in Calls /\ InSession(x) /\ call[x].saw \in Roles
                /\ tokens'[x].user = UserOf(x) /\ tokens'[x].role = call[x].saw
  BY <1>0, <1>2, IssuerInSession
<1>3. ASSUME NEW c \in Calls, Step(c)
      PROVE  \/ tokens' = tokens
             \/ tokens[x].status = "live" /\ tokens'[x] = tokens[x]
             \/ Issue(c)
  BY <1>1, <1>3, WhoWrites DEF Revoke, RevokeAll
<1>4. tokens' = tokens \/ \E c \in Calls : Step(c)
  BY DEF Next, Step, Arrive, vars, rows
<1>. QED
  BY <1>2, <1>3, <1>4

\* Sessions that were there, and those that the step found valid.
LEMMA LiveSessions ==
  ASSUME StateOK, HistoryOK, [Next]_vars, NEW e \in Calls, InSession(e)'
  PROVE  /\ UserOf(e)' = UserOf(e) /\ Began(e)
         /\ \/ InSession(e) /\ call'[e].saw = call[e].saw
            \/ /\ UnderWay(e)
               /\ UNCHANGED rows
               /\ \/ Kind(e) = "Login" /\ users[UserOf(e)].live /\ call'[e].saw = users[UserOf(e)].role
                  \/ Kind(e) = "Refresh" /\ Valid(Thing(e)) /\ call'[e].saw = tokens[Thing(e)].role
<1>1. CASE call'[e] = call[e]
  BY <1>1, OthersStay DEF InSession, UnderWay
<1>2. CASE call'[e] # call[e]
  <2>1. Step(e)
    <3>1. ASSUME NEW c \in Calls, Step(c)
          PROVE  c = e
      BY <1>2, <3>1, StepGoes DEF Goes
    <3>2. ASSUME NEW c \in Calls, Arrive(c)
          PROVE  FALSE
      BY <1>2, <3>2, ArriveGoes
    <3>. QED
      BY <1>2, <3>1, <3>2 DEF Next, Step, vars
  <2>2. UserOf(e)' = UserOf(e) /\ UnderWay(e) /\ Began(e)
    BY <2>1, StepGoes DEF Goes, UnderWay
  <2>. QED
    BY <2>1, <2>2, SessionsBegin
<1>. QED
  BY <1>1, <1>2

\* Nothing reopens what a deletion has closed, as long as it goes on, and then
\* because the user is deleted, or has lost the role.
LEMMA ClosedStays ==
  ASSUME StateOK, HistoryOK, [Next]_vars, NEW d \in Calls, Closed(d),
         \/ UnderWay(d)
         \/ Kind(d) = "DeleteUser" /\ ~users[UserOf(d)].live
         \/ Kind(d) = "DeleteVendor" /\ users[UserOf(d)].role = "buyer"
  PROVE  Closed(d)'
<1>0. Extends
  BY NextExtends
<1>1. Began(d) /\ Kind(d)' = Kind(d) /\ UserOf(d)' = UserOf(d)
  BY <1>0 DEF Extends, UnderWay, Began
<1>3. ASSUME NEW x \in Things, tokens'[x].status = "live", tokens'[x].user = UserOf(d)
      PROVE  Exempt(d, tokens[x].role)' \/ Explained(x, d)'
  <2>1. CASE tokens[x].status = "live" /\ tokens'[x] = tokens[x]
    <3>1. Exempt(d, tokens[x].role) \/ Explained(x, d)
      BY <1>3, <2>1 DEF Closed
    <3>. QED
      BY <1>0, <1>1, <2>1, <3>1, ExplainedStays DEF Exempt
  <2>2. CASE x \in Calls /\ InSession(x) /\ tokens'[x].user = UserOf(x) /\ tokens'[x].role = call[x].saw
    <3>1. Exempt(d, call[x].saw) \/ Explained(x, d)
      BY <1>3, <2>2 DEF Closed
    <3>. QED
      BY <1>0, <1>1, <2>2, <3>1, ExplainedStays DEF Exempt
  <2>. QED
    BY <1>3, <2>1, <2>2, LiveTokens
<1>4. ASSUME NEW e \in Calls, InSession(e)', UserOf(e)' = UserOf(d)
      PROVE  Exempt(d, call[e].saw)' \/ Explained(e, d)'
  <2>0. UserOf(e) = UserOf(d) /\ e \in Things /\ Thing(e) \in Things
    BY <1>4, LiveSessions, CallFields
  <2>1. CASE InSession(e) /\ call'[e].saw = call[e].saw
    <3>1. Exempt(d, call[e].saw) \/ Explained(e, d)
      BY <2>0, <2>1 DEF Closed
    <3>. QED
      BY <1>0, <1>1, <2>0, <2>1, <3>1, ExplainedStays DEF Exempt
  <2>2. CASE UnderWay(e) /\ UnderWay(d)
    <3>1. Explained(e, d)
      BY <2>2, TogetherOverlap, ExplainedBy
    <3>. QED
      BY <1>0, <2>0, <3>1, ExplainedStays
  <2>3. CASE Kind(e) = "Login" /\ users[UserOf(e)].live /\ call'[e].saw = users[UserOf(e)].role /\ ~UnderWay(d)
    <3>1. Kind(d) = "DeleteVendor" /\ call'[e].saw = "buyer"
      BY <2>0, <2>3
    <3>. QED
      BY <1>1, <3>1 DEF Exempt
  <2>4. CASE Kind(e) = "Refresh" /\ Valid(Thing(e)) /\ call'[e].saw = tokens[Thing(e)].role
    <3>1. tokens[Thing(e)].status = "live" /\ tokens[Thing(e)].user = UserOf(d)
      BY <2>0, <2>4 DEF Valid, HistoryOK
    <3>2. Exempt(d, tokens[Thing(e)].role) \/ Explained(Thing(e), d)
      BY <2>0, <3>1 DEF Closed
    <3>3. Exempt(d, tokens[Thing(e)].role) \/ Explained(e, d)
      BY <2>4, <3>2, ExplainedBy
    <3>. QED
      BY <1>0, <1>1, <2>0, <2>4, <3>3, ExplainedStays DEF Exempt
  <2>. QED
    BY <1>4, <2>1, <2>2, <2>3, <2>4, LiveSessions
<1>. QED
  BY <1>1, <1>3, <1>4 DEF Closed

\* Where a deletion that goes on was.
LEMMA DeletionGoesOn ==
  ASSUME StateOK, NEW d \in Calls, Step(d), UnderWay(d)'
  PROVE  /\ Kind(d) = "DeleteUser" =>
              /\ Done(d) = 2 => GetByUserID(d) \/ Drop(d)
              /\ Done(d) = 3 => Unpublish(d)
              /\ Done(d) = 4 => SoftDeleteVendor(d)
              /\ Done(d) = 5 => RevokeAll(d)
         /\ Kind(d) = "DeleteVendor" =>
              /\ Done(d) = 2 => Unpublish(d)
              /\ Done(d) = 3 => RevokeAll(d)
<1>1. ~WriteApplication(d) /\ ~WriteProduct(d) /\ ~Fail(d) /\ ~Issue(d)
  BY LastGoes
<1>2. Drop(d) => Kind(d) # "DeleteVendor" /\ (Kind(d) = "DeleteUser" => Done(d) = 2)
  BY DropGoes
<1>3. ASSUME Kind(d) = "DeleteUser"
      PROVE  /\ Done(d) = 2 => GetByUserID(d) \/ Drop(d)
             /\ Done(d) = 3 => Unpublish(d)
             /\ Done(d) = 4 => SoftDeleteVendor(d)
             /\ Done(d) = 5 => RevokeAll(d)
  <2> DEFINE n == Done(d) + 1
  <2>1. /\ ~GetByEmail(d) /\ ~IsValid(d) /\ ~Revoke(d) /\ ~GetVendor(d) /\ ~SelectStatus(d) /\ ~SetStatus(d)
        /\ ~UpdateRole(d) /\ ~GetProduct(d)
    BY <1>3, StatementsPlaced DEF Place
  <2>2. /\ Begin(d) => n = 1
        /\ GetUser(d) => n = 2
        /\ GetByUserID(d) => n = 3
        /\ Unpublish(d) => n = 4
        /\ SoftDeleteVendor(d) => n = 5
        /\ RevokeAll(d) => n = 6
        /\ SoftDeleteUser(d) => n = 7
        /\ Commit(d) => n = 8
    BY <1>3, StatementsPlaced DEF Place
  <2>3. \A m : Done(d) = m => n = m + 1
    OBVIOUS
  <2> HIDE DEF n
  <2>4. /\ Done(d) = 2 => n = 3
        /\ Done(d) = 3 => n = 4
        /\ Done(d) = 4 => n = 5
        /\ Done(d) = 5 => n = 6
    BY <2>3
  <2>. QED
    BY <1>1, <1>2, <1>3, <2>1, <2>2, <2>4 DEF Step, Statement
<1>4. ASSUME Kind(d) = "DeleteVendor"
      PROVE  /\ Done(d) = 2 => Unpublish(d)
             /\ Done(d) = 3 => RevokeAll(d)
  <2> DEFINE n == Done(d) + 1
  <2>1. /\ ~GetByEmail(d) /\ ~IsValid(d) /\ ~Revoke(d) /\ ~GetUser(d) /\ ~SelectStatus(d) /\ ~SetStatus(d)
        /\ ~SoftDeleteUser(d) /\ ~GetProduct(d) /\ ~GetByUserID(d)
    BY <1>4, StatementsPlaced DEF Place
  <2>2. /\ GetVendor(d) => n = 1
        /\ Begin(d) => n = 2
        /\ Unpublish(d) => n = 3
        /\ RevokeAll(d) => n = 4
        /\ SoftDeleteVendor(d) => n = 5
        /\ UpdateRole(d) => n = 6
        /\ Commit(d) => n = 7
    BY <1>4, StatementsPlaced DEF Place
  <2>3. \A m : Done(d) = m => n = m + 1
    OBVIOUS
  <2> HIDE DEF n
  <2>4. /\ Done(d) = 2 => n = 3
        /\ Done(d) = 3 => n = 4
    BY <2>3
  <2>. QED
    BY <1>1, <1>2, <1>4, <2>1, <2>2, <2>4 DEF Step, Statement
<1>. QED
  BY <1>3, <1>4

\* The step that moves a call is its own.
LEMMA OwnStep ==
  ASSUME StateOK, [Next]_vars, NEW d \in Calls, call'[d] # call[d]
  PROVE  Arrive(d) \/ Step(d)
<1>1. ASSUME NEW c \in Calls, Step(c) \/ Arrive(c)
      PROVE  c = d
  BY <1>1, StepGoes, ArriveGoes DEF Goes
<1>. QED
  BY <1>1 DEF Next, Step, vars

LEMMA RevokeAllCloses ==
  ASSUME StateOK, HistoryOK, [Next]_vars, NEW d \in Calls, RevokeAll(d), UnderWay(d)'
  PROVE  Closed(d)'
<1>0. Extends /\ Step(d)
  BY NextExtends DEF Step, Statement
<1>1. UnderWay(d) /\ Kind(d)' = Kind(d) /\ UserOf(d)' = UserOf(d)
  BY <1>0, StepGoes DEF Goes
<1>2. tokens \in [Things -> [user : Users, role : Roles, status : {"none", "live", "revoked"}]]
  BY DEF StateOK, TypeOK
<1>3. \A x \in Things : ~(tokens'[x].status = "live" /\ tokens'[x].user = UserOf(d))
  BY <1>2 DEF RevokeAll, Revoked
<1>4. ASSUME NEW e \in Calls, InSession(e)'
      PROVE  Explained(e, d)'
  <2>1. call'[e] = call[e] \/ e = d
    BY <1>0, StepGoes DEF Goes
  <2>2. UnderWay(e)
    BY <1>1, <1>4, <2>1, OthersStay DEF InSession
  <2>3. Explained(e, d) /\ e \in Things
    BY <1>1, <2>2, TogetherOverlap, ExplainedBy DEF Things
  <2>. QED
    BY <1>0, <2>3, ExplainedStays
<1>. QED
  BY <1>1, <1>3, <1>4 DEF Closed

LEMMA PastRevokeCloses ==
  ASSUME StateOK, HistoryOK, Sessions, [Next]_vars, NEW d \in Calls, PastRevoke(d)'
  PROVE  Closed(d)'
<1>1. CASE PastRevoke(d)
  BY <1>1, ClosedStays DEF Sessions, PastRevoke
<1>2. CASE ~PastRevoke(d)
  <2>1. Step(d)
    BY <1>2, OwnStep, OthersStay, ArriveGoes
  <2>2. UnderWay(d)' /\ UnderWay(d) /\ Kind(d)' = Kind(d) /\ Done(d) \in Nat
    BY <2>1, StepGoes, CallParts DEF PastRevoke, Goes, UnderWay
  <2>3. \/ Done(d)' = Done(d) + 1
        \/ Kind(d) = "DeleteUser" /\ Done(d)' = 5
    BY <2>1, <2>2, StepGoes
  <2>4. \/ Kind(d) = "DeleteUser" /\ Done(d) = 5
        \/ Kind(d) = "DeleteVendor" /\ Done(d) = 3
    BY <1>2, <2>2, <2>3 DEF PastRevoke
  <2>5. RevokeAll(d)
    BY <2>1, <2>2, <2>4, DeletionGoesOn
  <2>. QED
    BY <2>2, <2>5, RevokeAllCloses
<1>. QED
  BY <1>1, <1>2

\* What becomes of a user.
LEMMA UsersKept ==
  ASSUME StateOK, [Next]_vars, NEW u \in Users
  PROVE  \/ users'[u] = users[u]
         \/ /\ users'[u].role = users[u].role
            /\ \E d \in Calls : SoftDeleteUser(d) /\ Step(d) /\ UserOf(d) = u
         \/ /\ users'[u].live = users[u].live /\ users'[u].role = "buyer"
            /\ \E d \in Calls : UpdateRole(d) /\ Step(d) /\ UserOf(d) = u
<1>0. users \in [Users -> [role : Roles, live : BOOLEAN]] /\ \A c \in Calls : UserOf(c) \in Users
  BY CallFields DEF StateOK, TypeOK
<1>1. ASSUME NEW d \in Calls, SoftDeleteUser(d), Step(d)
      PROVE  users'[u] = users[u] \/ (users'[u].role = users[u].role /\ UserOf(d) = u)
  BY <1>0, <1>1 DEF SoftDeleteUser
<1>2. ASSUME NEW d \in Calls, UpdateRole(d), Step(d)
      PROVE  \/ users'[u] = users[u]
             \/ users'[u].live = users[u].live /\ users'[u].role = "buyer" /\ UserOf(d) = u
  BY <1>0, <1>2 DEF UpdateRole
<1>3. users' = users \/ \E d \in Calls : Step(d) /\ (SoftDeleteUser(d) \/ UpdateRole(d))
  <2>1. CASE \E c \in Calls : Step(c)
    BY <2>1, WhoWrites
  <2>2. CASE ~\E c \in Calls : Step(c)
    BY <2>2 DEF Next, Step, Arrive, vars, rows
  <2>. QED
    BY <2>1, <2>2
<1>. QED
  BY <1>1, <1>2, <1>3

LEMMA NextSessions == StateOK /\ HistoryOK /\ Sessions /\ [Next]_vars => Sessions'
<1> SUFFICES ASSUME StateOK, HistoryOK, Sessions, [Next]_vars
             PROVE  Sessions'
  OBVIOUS
<1>0. Extends
  BY NextExtends
<1>1. \A d \in Calls : PastRevoke(d)' => Closed(d)'
  BY PastRevokeCloses
<1>2. ASSUME NEW u \in Users, ~users'[u].live
      PROVE  \E d \in Calls : Kind(d)' = "DeleteUser" /\ UserOf(d)' = u /\ Closed(d)'
  <2>1. CASE ~users[u].live
    <3>1. PICK d \in Calls : Kind(d) = "DeleteUser" /\ UserOf(d) = u /\ Closed(d)
      BY <2>1 DEF Sessions
    <3>2. Closed(d)' /\ Kind(d)' = Kind(d) /\ UserOf(d)' = UserOf(d)
      BY <1>0, <2>1, <3>1, ClosedStays DEF Extends, Began
    <3>. QED
      BY <3>1, <3>2
  <2>2. CASE users[u].live
    <3>1. PICK d \in Calls : SoftDeleteUser(d) /\ Step(d) /\ UserOf(d) = u
      BY <1>2, <2>2, UsersKept
    <3>2. Kind(d) = "DeleteUser" /\ Done(d) + 1 = 7 /\ UnderWay(d)
      BY <3>1, StatementsPlaced DEF Place
    <3>3. Done(d) \in Nat /\ Kind(d)' = Kind(d) /\ UserOf(d)' = UserOf(d)
      BY <3>1, <3>2, StepGoes, CallParts DEF Goes, UnderWay
    <3>4. PastRevoke(d)
      BY <3>2, <3>3 DEF PastRevoke
    <3>5. Closed(d)'
      BY <3>2, <3>4, ClosedStays DEF Sessions
    <3>. QED
      BY <3>1, <3>2, <3>3, <3>5
  <2>. QED
    BY <2>1, <2>2
<1>3. ASSUME NEW u \in Users, SameRole(u), users'[u].role = users[u].role
      PROVE  SameRole(u)'
  <2>1. ASSUME NEW x \in Things, tokens'[x].status = "live", tokens'[x].user = u
        PROVE  tokens'[x].role = users'[u].role
    BY <1>3, <2>1, LiveTokens DEF SameRole
  <2>2. ASSUME NEW e \in Calls, InSession(e)', UserOf(e)' = u
        PROVE  call'[e].saw = users'[u].role
    <3>1. UserOf(e) = u /\ Thing(e) \in Things /\ (Kind(e) = "Refresh" => tokens[Thing(e)].user = u)
      BY <2>2, LiveSessions, CallFields DEF HistoryOK
    <3>. QED
      BY <1>3, <2>2, <3>1, LiveSessions DEF SameRole, Valid
  <2>. QED
    BY <2>1, <2>2 DEF SameRole
<1>4. ASSUME NEW u \in Users
      PROVE  \/ SameRole(u)'
             \/ /\ users'[u].role = "buyer"
                /\ \E d \in Calls : Kind(d)' = "DeleteVendor" /\ UserOf(d)' = u /\ Closed(d)'
  <2>1. CASE users'[u].role = users[u].role /\ SameRole(u)
    BY <2>1, <1>3
  <2>2. CASE users'[u].role = users[u].role /\ ~SameRole(u)
    <3>1. PICK d \in Calls : Kind(d) = "DeleteVendor" /\ UserOf(d) = u /\ Closed(d)
      BY <2>2 DEF Sessions
    <3>2. users[u].role = "buyer"
      BY <2>2 DEF Sessions
    <3>3. Closed(d)' /\ Kind(d)' = Kind(d) /\ UserOf(d)' = UserOf(d)
      BY <1>0, <3>1, <3>2, ClosedStays DEF Extends, Began
    <3>. QED
      BY <2>2, <3>1, <3>2, <3>3
  <2>3. CASE users'[u].role # users[u].role
    <3>1. /\ users'[u].role = "buyer"
          /\ \E d \in Calls : UpdateRole(d) /\ Step(d) /\ UserOf(d) = u
      BY <2>3, UsersKept
    <3>2. PICK d \in Calls : UpdateRole(d) /\ Step(d) /\ UserOf(d) = u
      BY <3>1
    <3>3. Kind(d) = "DeleteVendor" /\ Done(d) + 1 = 6 /\ UnderWay(d)
      BY <3>2, StatementsPlaced DEF Place
    <3>4. Done(d) \in Nat /\ Kind(d)' = Kind(d) /\ UserOf(d)' = UserOf(d)
      BY <3>2, <3>3, StepGoes, CallParts DEF Goes, UnderWay
    <3>5. PastRevoke(d)
      BY <3>3, <3>4 DEF PastRevoke
    <3>6. Closed(d)'
      BY <3>3, <3>5, ClosedStays DEF Sessions
    <3>. QED
      BY <3>1, <3>2, <3>3, <3>4, <3>6
  <2>. QED
    BY <2>1, <2>2, <2>3
<1>. QED
  BY <1>1, <1>2, <1>4 DEF Sessions

LEMMA InitSessions == Init => Sessions
<1> SUFFICES ASSUME Init
             PROVE  Sessions
  OBVIOUS
<1>1. StateOK /\ \A c \in Calls : ~UnderWay(c)
  BY InitStateOK
<1>2. \A u \in Users : users[u].live
  BY DEF Init
<1>3. \A u \in Users : SameRole(u)
  BY <1>1 DEF Init, SameRole, InSession
<1>. QED
  BY <1>1, <1>2, <1>3 DEF Sessions, PastRevoke

LEMMA SessionsEndHolds == StateOK /\ Sessions => SessionsEnd
<1> SUFFICES ASSUME StateOK, Sessions, NEW x \in Things, tokens[x].status = "live"
             PROVE  /\ \/ users[tokens[x].user].live
                       \/ \E d \in Calls, y \in Lineage(x) :
                            Kind(d) = "DeleteUser" /\ UserOf(d) = tokens[x].user /\ y \in Calls /\ Overlap(y, d)
                    /\ \/ users[tokens[x].user].role = tokens[x].role
                       \/ \E d \in Calls, y \in Lineage(x) :
                            Kind(d) = "DeleteVendor" /\ UserOf(d) = tokens[x].user /\ y \in Calls /\ Overlap(y, d)
  BY DEF SessionsEnd
<1> DEFINE u == tokens[x].user
<1>1. u \in Users
  BY DEF StateOK, TypeOK
<1>2. ASSUME ~users[u].live
      PROVE  \E d \in Calls, y \in Lineage(x) :
               Kind(d) = "DeleteUser" /\ UserOf(d) = u /\ y \in Calls /\ Overlap(y, d)
  <2>1. PICK d \in Calls : Kind(d) = "DeleteUser" /\ UserOf(d) = u /\ Closed(d)
    BY <1>1, <1>2 DEF Sessions
  <2>2. Explained(x, d)
    BY <2>1 DEF Closed, Exempt
  <2>. QED
    BY <2>1, <2>2 DEF Explained
<1>3. ASSUME users[u].role # tokens[x].role
      PROVE  \E d \in Calls, y \in Lineage(x) :
               Kind(d) = "DeleteVendor" /\ UserOf(d) = u /\ y \in Calls /\ Overlap(y, d)
  <2>1. ~SameRole(u)
    BY <1>3 DEF SameRole
  <2>2. users[u].role = "buyer"
    BY <1>1, <2>1 DEF Sessions
  <2>3. PICK d \in Calls : Kind(d) = "DeleteVendor" /\ UserOf(d) = u /\ Closed(d)
    BY <1>1, <2>1 DEF Sessions
  <2>4. Explained(x, d)
    BY <1>3, <2>2, <2>3 DEF Closed, Exempt
  <2>. QED
    BY <2>3, <2>4 DEF Explained
<1>. QED
  BY <1>2, <1>3

----------------------------------------------------------------------------
(* Shops *)

LEMMA PublishedProducts ==
  ASSUME StateOK, [Next]_vars, NEW x \in Things, products'[x].status = "published"
  PROVE  \/ products[x].status = "published" /\ products'[x] = products[x]
         \/ \E c \in Calls : Writing(c) /\ products'[x].owner = UserOf(c) /\ products'[x].by = c
<1>0. products \in [Things -> [owner : Users, status : {"none", "draft", "published"}, by : Things]]
  BY DEF StateOK, TypeOK
<1>1. ASSUME NEW c \in Calls, WriteProduct(c)
      PROVE  \/ products'[x] = products[x]
             \/ Writing(c) /\ products'[x].owner = UserOf(c) /\ products'[x].by = c
  <2>0. Thing(c) \in Things /\ UserOf(c) \in Users
    BY CallFields
  <2>1. CASE Kind(c) \in {"CreateProduct", "UpdateProduct"}
    <3>1. UnderWay(c) /\ Done(c) + 1 = 2
      BY <1>1, <2>1, StatementsPlaced DEF Place
    <3>2. Done(c) \in Nat
      BY <3>1, CallParts DEF UnderWay
    <3>3. Writing(c)
      BY <2>1, <3>1, <3>2 DEF Writing
    <3>4. \/ products' = products
          \/ \E s \in {"draft", "published"} :
               products' = [products EXCEPT ![Thing(c)] = [owner |-> UserOf(c), status |-> s, by |-> c]]
      BY <1>1, <2>1 DEF WriteProduct
    <3>. QED
      BY <1>0, <2>0, <3>3, <3>4
  <2>2. CASE Kind(c) \notin {"CreateProduct", "UpdateProduct"}
    <3>1. products' = products \/ products' = [products EXCEPT ![Thing(c)].status = "none"]
      BY <1>1, <2>2 DEF WriteProduct
    <3>. QED
      BY <1>0, <2>0, <3>1
  <2>. QED
    BY <2>1, <2>2
<1>2. ASSUME NEW c \in Calls, Unpublish(c)
      PROVE  products'[x] = products[x]
  <2>1. products'[x] = IF products[x].owner = UserOf(c) /\ products[x].status = "published"
                       THEN [products[x] EXCEPT !.status = "draft"] ELSE products[x]
    BY <1>2 DEF Unpublish
  <2>2. products[x] \in [owner : Users, status : {"none", "draft", "published"}, by : Things]
    BY <1>0
  <2>. QED
    BY <2>1, <2>2
<1>3. products' = products \/ \E c \in Calls : Unpublish(c) \/ WriteProduct(c)
  <2>1. CASE \E c \in Calls : Step(c)
    BY <2>1, WhoWrites
  <2>2. CASE ~\E c \in Calls : Step(c)
    BY <2>2 DEF Next, Step, Arrive, vars, rows
  <2>. QED
    BY <2>1, <2>2
<1>. QED
  BY <1>1, <1>2, <1>3

LEMMA LiveWriters ==
  ASSUME StateOK, [Next]_vars, NEW w \in Calls, Writing(w)'
  PROVE  /\ UserOf(w)' = UserOf(w)
         /\ Writing(w) \/ (UnderWay(w) /\ vendors[UserOf(w)].live)
<1>1. CASE call'[w] = call[w]
  BY <1>1, OthersStay
<1>2. CASE call'[w] # call[w]
  <2>1. Step(w)
    BY <1>2, OwnStep, ArriveGoes
  <2>2. UserOf(w)' = UserOf(w) /\ UnderWay(w) /\ Kind(w) \in {"CreateProduct", "UpdateProduct"}
    BY <2>1, StepGoes DEF Goes, Writing
  <2>3. GetByUserID(w) /\ UnderWay(w)'
    BY <2>1, <2>2, WhoGoesOn DEF Writing
  <2>. QED
    BY <2>2, <2>3, FoundMore
<1>. QED
  BY <1>1, <1>2

LEMMA HiddenStays ==
  ASSUME StateOK, HistoryOK, [Next]_vars, NEW d \in Calls, Began(d), Hidden(d),
         UnderWay(d) \/ ~vendors[UserOf(d)].live
  PROVE  Hidden(d)'
<1>0. Extends
  BY NextExtends
<1>1. UserOf(d)' = UserOf(d)
  BY <1>0 DEF Extends
<1>2. ASSUME NEW x \in Things, products'[x].status = "published", products'[x].owner = UserOf(d)
      PROVE  products'[x].by \in Calls /\ Overlap(products[x].by, d)'
  <2>1. CASE products[x].status = "published" /\ products'[x] = products[x]
    <3>1. products[x].by \in Calls /\ Overlap(products[x].by, d)
      BY <1>2, <2>1 DEF Hidden
    <3>2. PICK b \in Calls : b = products[x].by
      BY <3>1
    <3>3. Overlap(b, d)'
      BY <1>0, <3>1, <3>2, OverlapStays
    <3>. QED
      BY <2>1, <3>2, <3>3
  <2>2. CASE \E c \in Calls : Writing(c) /\ products'[x].owner = UserOf(c) /\ products'[x].by = c
    <3>1. PICK c \in Calls : Writing(c) /\ products'[x].owner = UserOf(c) /\ products'[x].by = c
      BY <2>2
    <3>2. Overlap(c, d)
      BY <1>2, <3>1 DEF Hidden
    <3>3. Overlap(c, d)'
      BY <1>0, <3>2, OverlapStays
    <3>. QED
      BY <3>1, <3>3 DEF Overlap
  <2>. QED
    BY <1>2, <2>1, <2>2, PublishedProducts
<1>3. ASSUME NEW w \in Calls, Writing(w)', UserOf(w)' = UserOf(d)
      PROVE  Overlap(w, d)'
  <2>1. CASE Writing(w)
    BY <1>0, <1>3, <2>1, LiveWriters, OverlapStays DEF Hidden
  <2>2. CASE UnderWay(w) /\ vendors[UserOf(w)].live /\ ~Writing(w)
    <3>1. UnderWay(d)
      BY <1>3, <2>2, LiveWriters
    <3>. QED
      BY <1>0, <2>2, <3>1, TogetherOverlap, OverlapStays
  <2>. QED
    BY <1>3, <2>1, <2>2, LiveWriters
<1>. QED
  BY <1>1, <1>2, <1>3 DEF Hidden

LEMMA UnpublishHides ==
  ASSUME StateOK, HistoryOK, [Next]_vars, NEW d \in Calls, Unpublish(d), UnderWay(d)'
  PROVE  Hidden(d)'
<1>0. Extends /\ Step(d)
  BY NextExtends DEF Step, Statement
<1>1. UnderWay(d) /\ UserOf(d)' = UserOf(d)
  BY <1>0, StepGoes DEF Goes
<1>2. products \in [Things -> [owner : Users, status : {"none", "draft", "published"}, by : Things]]
  BY DEF StateOK, TypeOK
<1>3. ASSUME NEW x \in Things
      PROVE  ~(products'[x].status = "published" /\ products'[x].owner = UserOf(d))
  <2>1. products'[x] = IF products[x].owner = UserOf(d) /\ products[x].status = "published"
                       THEN [products[x] EXCEPT !.status = "draft"] ELSE products[x]
    BY DEF Unpublish
  <2>2. products[x] \in [owner : Users, status : {"none", "draft", "published"}, by : Things]
    BY <1>2
  <2>. QED
    BY <2>1, <2>2
<1>4. ASSUME NEW w \in Calls, Writing(w)'
      PROVE  Overlap(w, d)'
  <2>1. UnderWay(w)
    BY <1>4, LiveWriters DEF Writing
  <2>. QED
    BY <1>0, <1>1, <2>1, TogetherOverlap, OverlapStays
<1>. QED
  BY <1>1, <1>3, <1>4 DEF Hidden

LEMMA PastUnpublishHides ==
  ASSUME StateOK, HistoryOK, Shops, [Next]_vars, NEW d \in Calls, PastUnpublish(d)'
  PROVE  Hidden(d)'
<1>1. CASE PastUnpublish(d)
  BY <1>1, HiddenStays DEF Shops, PastUnpublish, UnderWay
<1>2. CASE ~PastUnpublish(d)
  <2>1. Step(d)
    BY <1>2, OwnStep, OthersStay, ArriveGoes
  <2>2. UnderWay(d)' /\ UnderWay(d) /\ Kind(d)' = Kind(d) /\ Done(d) \in Nat
    BY <2>1, StepGoes, CallParts DEF PastUnpublish, Goes, UnderWay
  <2>3. \/ Done(d)' = Done(d) + 1
        \/ Kind(d) = "DeleteUser" /\ Done(d)' = 5
    BY <2>1, <2>2, StepGoes
  <2>4. \/ Kind(d) = "DeleteUser" /\ Done(d) = 3
        \/ Kind(d) = "DeleteVendor" /\ Done(d) = 2
    BY <1>2, <2>2, <2>3 DEF PastUnpublish
  <2>5. Unpublish(d)
    BY <2>1, <2>2, <2>4, DeletionGoesOn
  <2>. QED
    BY <2>2, <2>5, UnpublishHides
<1>. QED
  BY <1>1, <1>2

\* What becomes of a vendor.
LEMMA VendorRows ==
  ASSUME StateOK, [Next]_vars, NEW u \in Users
  PROVE  /\ vendors[u].live /\ ~vendors'[u].live =>
              \E d \in Calls : SoftDeleteVendor(d) /\ Step(d) /\ UserOf(d) = u
         /\ HasVendor(u)' => \/ HasVendor(u) /\ vendors'[u].by = vendors[u].by
                             \/ \E c \in Calls : vendors'[u].by = c /\ UnderWay(c)
         /\ ~vendors[u].live => ~vendors'[u].live
<1>0. /\ vendors \in [Users -> [status : {"none", "pending", "approved", "rejected", "deleted"},
                                live : BOOLEAN, by : Things]]
      /\ \A c \in Calls : UserOf(c) \in Users
  BY CallFields DEF StateOK, TypeOK
<1>1. ASSUME NEW c \in Calls, WriteApplication(c)
      PROVE  /\ vendors[u].live => vendors'[u].live
             /\ HasVendor(u)' => \/ HasVendor(u) /\ vendors'[u].by = vendors[u].by
                                 \/ vendors'[u].by = c /\ UnderWay(c)
  <2>1. UnderWay(c) /\ Kind(c) = "Apply" /\ Done(c) + 1 = 2
    BY <1>1, StatementsPlaced DEF Place
  <2>2. Done(c) \in Nat
    BY <2>1, CallParts DEF UnderWay
  <2>3. call[c].saw = "rejected" => vendors[UserOf(c)].status # "none"
    BY <2>1, <2>2 DEF StateOK, FoundVendor
  <2>4. CASE vendors' = vendors
    BY <2>4 DEF HasVendor
  <2>5. CASE /\ vendors[UserOf(c)].live /\ vendors[UserOf(c)].status # "none"
             /\ vendors' = [vendors EXCEPT ![UserOf(c)].status = "pending"]
    BY <1>0, <2>5 DEF HasVendor
  <2>6. CASE vendors' = [vendors EXCEPT ![UserOf(c)] = [status |-> "pending", live |-> TRUE, by |-> c]]
    BY <1>0, <2>1, <2>6 DEF HasVendor
  <2>. QED
    BY <1>1, <2>3, <2>4, <2>5, <2>6 DEF WriteApplication
<1>2. ASSUME NEW c \in Calls, SetStatus(c)
      PROVE  /\ vendors[u].live => vendors'[u].live
             /\ HasVendor(u)' => HasVendor(u) /\ vendors'[u].by = vendors[u].by
  <2>1. UnderWay(c) /\ Kind(c) \in {"ApproveVendor", "RejectVendor"} /\ Done(c) + 1 = 3
    BY <1>2, StatementsPlaced DEF Place
  <2>2. Done(c) \in Nat
    BY <2>1, CallParts DEF UnderWay
  <2>3. vendors[UserOf(c)].status # "none"
    BY <2>1, <2>2 DEF StateOK, FoundVendor
  <2>4. vendors' = [vendors EXCEPT ![UserOf(c)].status = Wanted(c)]
    BY <1>2 DEF SetStatus
  <2>. QED
    BY <1>0, <2>3, <2>4 DEF HasVendor
<1>3. ASSUME NEW c \in Calls, SoftDeleteVendor(c)
      PROVE  /\ vendors[u].live /\ ~vendors'[u].live => UserOf(c) = u
             /\ HasVendor(u)' => HasVendor(u) /\ vendors'[u].by = vendors[u].by
  BY <1>0, <1>3 DEF SoftDeleteVendor, HasVendor
<1>4. CASE vendors' = vendors
  BY <1>4 DEF HasVendor
<1>5. CASE \E c \in Calls : Step(c)
  <2>1. PICK c \in Calls : Step(c)
    BY <1>5
  <2>2. ~vendors[u].live => ~vendors'[u].live
    BY <2>1, VendorsKept DEF VendorsStay
  <2>. QED
    BY <1>1, <1>2, <1>3, <1>4, <2>1, <2>2, WhoWrites
<1>6. CASE ~\E c \in Calls : Step(c)
  BY <1>4, <1>6 DEF Next, Step, Arrive, vars, rows
<1>. QED
  BY <1>5, <1>6

LEMMA MissedStays ==
  ASSUME StateOK, HistoryOK, [Next]_vars, NEW d \in Calls, Began(d), Missed(d)
  PROVE  Missed(d)'
<1> DEFINE u == UserOf(d)
<1>0. Extends /\ u \in Users /\ UserOf(d)' = u
  BY NextExtends, CallFields DEF Extends
<1>1. call[d].lost => call'[d].lost
  BY <1>0 DEF Extends
<1>2. ASSUME HasVendor(u)', ~call'[d].lost
      PROVE  vendors'[u].by \in Calls /\ <<vendors'[u].by, d>> \notin before'
  <2>1. CASE HasVendor(u) /\ vendors'[u].by = vendors[u].by
    <3>1. vendors[u].by \in Calls /\ <<vendors[u].by, d>> \notin before
      BY <1>1, <1>2, <2>1 DEF Missed
    <3>. QED
      BY <1>0, <2>1, <3>1 DEF Extends
  <2>2. CASE \E c \in Calls : vendors'[u].by = c /\ UnderWay(c)
    <3>1. PICK c \in Calls : vendors'[u].by = c /\ UnderWay(c)
      BY <2>2
    <3>2. <<c, d>> \notin before
      BY <3>1 DEF HistoryOK, UnderWay, Ended
    <3>. QED
      BY <1>0, <3>1, <3>2 DEF Extends
  <2>. QED
    BY <1>0, <1>2, <2>1, <2>2, VendorRows
<1>. QED
  BY <1>0, <1>2 DEF Missed

LEMMA PastVendorMisses ==
  ASSUME StateOK, HistoryOK, Shops, [Next]_vars, NEW d \in Calls,
         UnderWay(d)', Kind(d)' = "DeleteUser", Done(d)' >= 5
  PROVE  Missed(d)'
<1>1. CASE UnderWay(d) /\ Kind(d) = "DeleteUser" /\ Done(d) >= 5
  BY <1>1, MissedStays DEF Shops, UnderWay
<1>2. CASE ~(UnderWay(d) /\ Kind(d) = "DeleteUser" /\ Done(d) >= 5)
  <2>1. Step(d)
    <3>1. ~Arrive(d)
      BY ArriveGoes
    <3>. QED
      BY <1>2, <3>1, OwnStep, OthersStay
  <2>2. UnderWay(d) /\ Kind(d) = "DeleteUser" /\ UserOf(d)' = UserOf(d) /\ Done(d) \in Nat
    BY <2>1, StepGoes, CallParts DEF Goes, UnderWay
  <2>3. Done(d)' = Done(d) + 1 \/ (Done(d) = 2 /\ Done(d)' = 5)
    BY <2>1, StepGoes
  <2>4. UserOf(d) \in Users
    BY CallFields
  <2>5. CASE Done(d) = 4
    <3>1. SoftDeleteVendor(d)
      BY <2>1, <2>2, <2>5, DeletionGoesOn
    <3>2. vendors \in [Users -> [status : {"none", "pending", "approved", "rejected", "deleted"},
                                 live : BOOLEAN, by : Things]]
      BY DEF StateOK, TypeOK
    <3>3. ~vendors'[UserOf(d)].live
      BY <2>4, <3>1, <3>2 DEF SoftDeleteVendor
    <3>. QED
      BY <2>2, <3>3 DEF Missed, HasVendor
  <2>6. CASE Done(d) = 2 /\ Done(d)' = 5
    <3>1. GetByUserID(d) \/ Drop(d)
      BY <2>1, <2>2, <2>6, DeletionGoesOn
    <3>2. CASE GetByUserID(d)
      <4>1. ~HasVendor(UserOf(d))
        BY <2>2, <2>6, <3>2, FoundMore
      <4>2. vendors' = vendors
        BY <2>2, <3>2 DEF GetByUserID, rows
      <4>. QED
        BY <2>2, <4>1, <4>2 DEF Missed, HasVendor
    <3>3. CASE Drop(d)
      BY <3>3, DropGoes DEF Missed
    <3>. QED
      BY <3>1, <3>2, <3>3
  <2>. QED
    BY <1>2, <2>2, <2>3, <2>5, <2>6
<1>. QED
  BY <1>1, <1>2

LEMMA NextShops == StateOK /\ HistoryOK /\ Shops /\ [Next]_vars => Shops'
<1> SUFFICES ASSUME StateOK, HistoryOK, Shops, [Next]_vars
             PROVE  Shops'
  OBVIOUS
<1>0. Extends
  BY NextExtends
<1>1. \A d \in Calls : PastUnpublish(d)' => Hidden(d)'
  BY PastUnpublishHides
<1>2. ASSUME NEW u \in Users, ~vendors'[u].live
      PROVE  \E d \in Calls : Deletes(d, u)' /\ Hidden(d)'
  <2>1. CASE ~vendors[u].live
    <3>1. PICK d \in Calls : Deletes(d, u) /\ Hidden(d)
      BY <2>1 DEF Shops
    <3>2. Began(d) /\ UserOf(d) = u
      BY <3>1 DEF Deletes, Began
    <3>3. Hidden(d)'
      BY <2>1, <3>1, <3>2, HiddenStays
    <3>. QED
      BY <1>0, <3>1, <3>2, <3>3 DEF Extends, Deletes
  <2>2. CASE vendors[u].live
    <3>1. PICK d \in Calls : SoftDeleteVendor(d) /\ Step(d) /\ UserOf(d) = u
      BY <1>2, <2>2, VendorRows
    <3>2. Kind(d) \in {"DeleteUser", "DeleteVendor"} /\ Done(d) + 1 = 5 /\ UnderWay(d)
      BY <3>1, StatementsPlaced DEF Place
    <3>3. Done(d) \in Nat /\ Kind(d)' = Kind(d) /\ UserOf(d)' = UserOf(d) /\ Began(d)
      BY <3>1, <3>2, StepGoes, CallParts DEF Goes, UnderWay
    <3>4. PastUnpublish(d)
      BY <3>2, <3>3 DEF PastUnpublish
    <3>5. Hidden(d)'
      BY <3>2, <3>3, <3>4, HiddenStays DEF Shops
    <3>. QED
      BY <3>1, <3>2, <3>3, <3>5 DEF Deletes
  <2>. QED
    BY <2>1, <2>2
<1>3. \A d \in Calls : (UnderWay(d) /\ Kind(d) = "DeleteUser" /\ Done(d) >= 5)' => Missed(d)'
  BY PastVendorMisses
<1>4. ASSUME NEW u \in Users, ~users'[u].live
      PROVE  \E d \in Calls : Kind(d)' = "DeleteUser" /\ UserOf(d)' = u /\ Missed(d)'
  <2>1. CASE ~users[u].live
    <3>1. PICK d \in Calls : Kind(d) = "DeleteUser" /\ UserOf(d) = u /\ Missed(d)
      BY <2>1 DEF Shops
    <3>2. Began(d)
      BY <3>1 DEF Began
    <3>3. Missed(d)'
      BY <3>1, <3>2, MissedStays
    <3>. QED
      BY <1>0, <3>1, <3>2, <3>3 DEF Extends
  <2>2. CASE users[u].live
    <3>1. PICK d \in Calls : SoftDeleteUser(d) /\ Step(d) /\ UserOf(d) = u
      BY <1>4, <2>2, UsersKept
    <3>2. Kind(d) = "DeleteUser" /\ Done(d) + 1 = 7 /\ UnderWay(d)
      BY <3>1, StatementsPlaced DEF Place
    <3>3. Done(d) \in Nat /\ Kind(d)' = Kind(d) /\ UserOf(d)' = UserOf(d) /\ Began(d)
      BY <3>1, <3>2, StepGoes, CallParts DEF Goes, UnderWay
    <3>4. Missed(d)
      BY <3>2, <3>3 DEF Shops
    <3>5. Missed(d)'
      BY <3>3, <3>4, MissedStays
    <3>. QED
      BY <3>1, <3>2, <3>3, <3>5
  <2>. QED
    BY <2>1, <2>2
<1>. QED
  BY <1>1, <1>2, <1>3, <1>4 DEF Shops

LEMMA InitShops == Init => Shops
<1> SUFFICES ASSUME Init
             PROVE  Shops
  OBVIOUS
<1>1. \A c \in Calls : ~UnderWay(c)
  BY InitStateOK
<1>2. \A u \in Users : users[u].live /\ vendors[u].live
  BY DEF Init
<1>. QED
  BY <1>1, <1>2 DEF Shops, PastUnpublish

LEMMA ShopsCloseHolds == StateOK /\ Shops => ShopsClose
<1> SUFFICES ASSUME StateOK, Shops
             PROVE  ShopsClose
  OBVIOUS
<1>1. ASSUME NEW x \in Things, products[x].status = "published", ~vendors[products[x].owner].live
      PROVE  \E d \in Calls : /\ Kind(d) \in {"DeleteUser", "DeleteVendor"}
                              /\ UserOf(d) = products[x].owner
                              /\ products[x].by \in Calls /\ Overlap(products[x].by, d)
  <2>1. products[x].owner \in Users
    BY DEF StateOK, TypeOK
  <2>2. PICK d \in Calls : Deletes(d, products[x].owner) /\ Hidden(d)
    BY <1>1, <2>1 DEF Shops
  <2>. QED
    BY <1>1, <2>2 DEF Deletes, Hidden
<1>2. ASSUME NEW u \in Users, HasVendor(u), ~users[u].live
      PROVE  \E d \in Calls : /\ Kind(d) = "DeleteUser" /\ UserOf(d) = u
                              /\ \/ call[d].lost
                                 \/ vendors[u].by \in Calls /\ <<vendors[u].by, d>> \notin before
  <2>1. PICK d \in Calls : Kind(d) = "DeleteUser" /\ UserOf(d) = u /\ Missed(d)
    BY <1>2 DEF Shops
  <2>. QED
    BY <1>2, <2>1 DEF Missed
<1>. QED
  BY <1>1, <1>2 DEF ShopsClose

----------------------------------------------------------------------------
(* What holds in every run *)

LEMMA InitIInv == Init => IInv
BY InitStateOK, InitHistoryOK, InitRotations, InitSessions, InitShops DEF IInv

LEMMA NextIInv == IInv /\ [Next]_vars => IInv'
BY NextStateOK, NextHistoryOK, NextRotations, NextSessions, NextShops DEF IInv

LEMMA Invariance == Spec => []IInv
BY InitIInv, NextIInv, PTL DEF Spec

\* The state has its type: a call's place is always one of its script's, and a row
\* holds what a statement of some handler read or was asked for.
THEOREM AccountsTypeCorrect == Spec => []TypeOK
<1>1. IInv => TypeOK
  BY DEF IInv, StateOK
<1>. QED
  BY <1>1, Invariance, PTL

\* Whatever else runs, two refreshes exchange one refresh token only if they overlap
\* or a revocation failed (AuthService.Refresh: IsValid, then Revoke, then the new
\* token, each committed by itself).
THEOREM RotationsOverlap == Spec => []RotatedOnce
<1>1. IInv => RotatedOnce
  BY RotatedOnceHolds DEF IInv
<1>. QED
  BY <1>1, Invariance, PTL

\* However far a deletion got, and whatever ran meanwhile: a deleted user's session,
\* and a session with a role that was taken away, comes from a call that overlapped
\* the deletion (AdminService.DeleteUser, DeleteVendor: the sessions are revoked first).
THEOREM SessionsAreEnded == Spec => []SessionsEnd
<1>1. IInv => SessionsEnd
  BY SessionsEndHolds DEF IInv
<1>. QED
  BY <1>1, Invariance, PTL

\* However far a deletion got, and whatever ran meanwhile: a deleted vendor's product
\* is on sale only by a request that overlapped the deletion, and a deleted user keeps
\* a vendor only when the deletion did not find it.
THEOREM ShopsAreClosed == Spec => []ShopsClose
<1>1. IInv => ShopsClose
  BY ShopsCloseHolds DEF IInv
<1>. QED
  BY <1>1, Invariance, PTL
=============================================================================
