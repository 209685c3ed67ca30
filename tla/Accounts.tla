------------------------------ MODULE Accounts ------------------------------
(***************************************************************************)
(* Sessions, vendors, their products, and the administrators who end them. *)
(*                                                                         *)
(* A call is a sequence of statements, named in Script.  Each statement is *)
(* committed by itself and takes a connection of the pool while it runs,   *)
(* the ones written inside WithTx too: they go to the pool, and the        *)
(* transaction, which holds a connection of its own meanwhile, has only    *)
(* the row of the audit log to commit.                                     *)
(*                                                                         *)
(* No call asks again whether the user it works for exists or has the role *)
(* of the claims: JWTAuth looks at the access token only, so any user may  *)
(* make any call at any time.                                              *)
(***************************************************************************)
EXTENDS Naturals, Sequences, FiniteSets, Functions

CONSTANTS
  Users,
  Calls,     \* requests, and what they insert: a refresh token, a product
  Offers,    \* what each of them may be
  Old,       \* the refresh token and the product there were before
  PoolSize   \* pool.MaxConns

ASSUME CallsAssumption == IsFiniteSet(Calls) /\ Old \notin Calls
ASSUME OffersAssumption == DOMAIN Offers = Calls
ASSUME PoolAssumption == PoolSize \in Nat \ {0}

VARIABLES
  users,     \* users: role, and whether deleted_at is null
  vendors,   \* vendors: status, whether deleted_at is null, and (history) who inserted it
  tokens,    \* refresh_tokens, with the user and the role of the claims
  products,  \* products: their vendor's user, status, and (history) who wrote it last
  call,      \* each request: what it does, what is left to do, what it read
  before     \* history: <<c, d>>, c ended before d began

rows == <<users, vendors, tokens, products>>
vars == <<rows, call, before>>

Things == Calls \union {Old}
Roles == {"buyer", "vendor", "admin"}

----------------------------------------------------------------------------
(* The statements of each call *)

\* Mistake: the user is deleted before the sessions are.
HastyDeleteUser ==
  <<"Begin", "GetUser", "GetByUserID", "Unpublish", "SoftDeleteVendor",
    "SoftDeleteUser", "RevokeAll", "Commit">>

DeleteUser ==
  <<"Begin", "GetUser", "GetByUserID", "Unpublish", "SoftDeleteVendor",
    "RevokeAll", "SoftDeleteUser", "Commit">>

\* Mistake: the vendor is deleted before the products are hidden.
HastyDeleteVendor ==
  <<"GetVendor", "Begin", "SoftDeleteVendor", "Unpublish", "RevokeAll", "UpdateRole", "Commit">>

DeleteVendor ==
  <<"GetVendor", "Begin", "Unpublish", "RevokeAll", "SoftDeleteVendor", "UpdateRole", "Commit">>

\* DropProduct is the vendor's DeleteProduct.
Script == [
  Login         |-> <<"GetByEmail", "Issue">>,
  Refresh       |-> <<"IsValid", "Revoke", "Issue">>,
  Logout        |-> <<"Revoke">>,
  LogoutUser    |-> <<"Begin", "RevokeAll", "Commit">>,
  LogoutVendor  |-> <<"GetVendor", "Begin", "RevokeAll", "Commit">>,
  DeleteUser    |-> DeleteUser,
  DeleteVendor  |-> DeleteVendor,
  ApproveVendor |-> <<"Begin", "SelectStatus", "SetStatus">>,
  RejectVendor  |-> <<"Begin", "SelectStatus", "SetStatus">>,
  Apply         |-> <<"GetByUserID", "WriteApplication">>,
  CreateProduct |-> <<"GetByUserID", "WriteProduct">>,
  UpdateProduct |-> <<"GetByUserID", "WriteProduct">>,
  DropProduct   |-> <<"GetByUserID", "WriteProduct">>,
  DeleteProduct |-> <<"GetProduct", "WriteProduct">>]

Kinds == DOMAIN Script

Kind(c) == call[c].kind
UserOf(c) == call[c].user
Thing(c) == call[c].thing

Began(c) == Kind(c) # "none"
UnderWay(c) == call[c].end = "no" /\ Began(c)
Ended(c) == call[c].end # "no"
Ran(c, s) == Began(c) /\ s \in Range(Script[Kind(c)]) \ Range(call[c].todo)

\* Mistake: a call that fails keeps its connection.
Leaked == {c \in Calls : (Ran(c, "Begin") /\ UnderWay(c)) \/ call[c].end = "failed"}

\* The transactions that hold a connection.
Holding == {c \in Calls : Ran(c, "Begin") /\ UnderWay(c)}

InTransaction == {"SelectStatus", "SetStatus", "Commit"}

Reaches(c, s) ==
  /\ UnderWay(c)
  /\ Head(call[c].todo) = s
  /\ s \in InTransaction \/ Cardinality(Holding) < PoolSize

End(c, how) == call' = [call EXCEPT ![c].todo = <<>>, ![c].saw = "none", ![c].end = how]

\* n statements are done or skipped, of which the last read saw.
GoOn(c, n, saw) ==
  IF n = Len(call[c].todo) THEN End(c, "done")
  ELSE call' = [call EXCEPT ![c].todo = SubSeq(@, n + 1, Len(@)), ![c].saw = saw]

Query(c, s, found, saw) ==
  /\ Reaches(c, s)
  /\ IF found THEN GoOn(c, 1, saw) ELSE End(c, "refused")
  /\ UNCHANGED <<rows, before>>

Write(c, s) == Reaches(c, s) /\ GoOn(c, 1, call[c].saw) /\ UNCHANGED before

----------------------------------------------------------------------------
(* Requests arrive, transactions begin and end, statements fail *)

Init ==
  /\ users \in [Users -> [role : Roles, live : {TRUE}]]
  /\ vendors \in [Users -> [status : {"none", "approved", "rejected"}, live : {TRUE}, by : {Old}]]
  /\ \A u \in Users : users[u].role = "vendor" <=> vendors[u].status = "approved"
  /\ \E owner \in Users :
       /\ products = [x \in Things |-> [owner |-> owner, by |-> Old,
            status |-> IF x = Old /\ vendors[owner].status = "approved" THEN "published" ELSE "none"]]
       /\ tokens = [x \in Things |-> [user |-> owner, role |-> users[owner].role,
            status |-> IF x = Old THEN "live" ELSE "none"]]
  /\ call = [c \in Calls |-> [kind |-> "none", user |-> CHOOSE u \in Users : TRUE, thing |-> c,
                              todo |-> <<>>, saw |-> "none", end |-> "no", lost |-> FALSE]]
  /\ before = {}

Arrive(c) ==
  /\ ~Began(c)
  /\ \E k \in Offers[c] \cap Kinds, u \in Users, x \in Things :
       /\ IF k \in {"Refresh", "Logout"} THEN tokens[x].status # "none" /\ tokens[x].user = u
          ELSE IF k \in {"UpdateProduct", "DropProduct", "DeleteProduct"} THEN products[x].status # "none"
          ELSE x = c
       /\ call' = [call EXCEPT ![c] = [kind |-> k, user |-> u, thing |-> x, todo |-> Script[k],
                                       saw |-> "none", end |-> "no", lost |-> FALSE]]
  /\ before' = before \union {<<d, c>> : d \in {e \in Calls : Ended(e)}}
  /\ UNCHANGED rows

Begin(c) == Write(c, "Begin") /\ UNCHANGED rows

\* The row of the audit log, which is named by its call, and the commit.
Commit(c) == Write(c, "Commit") /\ UNCHANGED rows

\* A statement fails, or the client has gone.
Fail(c) == UnderWay(c) /\ End(c, "failed") /\ UNCHANGED <<rows, before>>

----------------------------------------------------------------------------
(* Sessions *)

\* The password may be wrong, or the address not verified.
GetByEmail(c) ==
  \/ Query(c, "GetByEmail", users[UserOf(c)].live, users[UserOf(c)].role)
  \/ Query(c, "GetByEmail", FALSE, "none")

\* Mistake: revoked_at is not looked at.
Issued(x) == tokens[x].status # "none"

Valid(x) == tokens[x].status = "live"

\* The role is the one in the claims. A token that has expired is refused too.
IsValid(c) ==
  \/ Query(c, "IsValid", Valid(Thing(c)), tokens[Thing(c)].role)
  \/ Query(c, "IsValid", FALSE, "none")

Revoked(X) ==
  tokens' = [x \in Things |->
    IF x \in X /\ tokens[x].status = "live" THEN [tokens[x] EXCEPT !.status = "revoked"] ELSE tokens[x]]

Revoke(c) ==
  /\ Write(c, "Revoke")
  /\ Revoked({Thing(c)})
  /\ UNCHANGED <<users, vendors, products>>

\* Refresh drops the error; DeleteUser takes one for "no vendor".
Drop(c) ==
  /\ UnderWay(c)
  /\ \E n \in {1, 3} :
       /\ \/ n = 1 /\ Kind(c) = "Refresh" /\ Reaches(c, "Revoke")
          \/ n = 3 /\ Kind(c) = "DeleteUser" /\ Reaches(c, "GetByUserID")
       /\ call' = [call EXCEPT ![c].todo = SubSeq(@, n + 1, Len(@)), ![c].lost = TRUE]
  /\ UNCHANGED <<rows, before>>

\* Login writes last_login_at first. The token is new, and of the role that was read.
Issue(c) ==
  /\ Write(c, "Issue")
  /\ tokens' = [tokens EXCEPT ![c] = [user |-> UserOf(c), role |-> call[c].saw, status |-> "live"]]
  /\ UNCHANGED <<users, vendors, products>>

RevokeAll(c) ==
  /\ Write(c, "RevokeAll")
  /\ Revoked({x \in Things : tokens[x].user = UserOf(c)})
  /\ UNCHANGED <<users, vendors, products>>

----------------------------------------------------------------------------
(* Vendors and users *)

HasVendor(u) == vendors[u].status # "none" /\ vendors[u].live

GetVendor(c) == Query(c, "GetVendor", HasVendor(UserOf(c)), "none")

GetUser(c) ==
  Query(c, "GetUser", users[UserOf(c)].live /\ users[UserOf(c)].role # "admin", "none")

\* Apply may go on without a vendor, or with one that was rejected.
GetByUserID(c) ==
  LET v == vendors[UserOf(c)] IN
  IF Kind(c) = "DeleteUser" THEN
    /\ Reaches(c, "GetByUserID")
    /\ GoOn(c, IF HasVendor(UserOf(c)) THEN 1 ELSE 3, "none")
    /\ UNCHANGED <<rows, before>>
  ELSE IF Kind(c) = "Apply" THEN
    Query(c, "GetByUserID", ~HasVendor(UserOf(c)) \/ v.status = "rejected",
          IF HasVendor(UserOf(c)) THEN "rejected" ELSE "none")
  ELSE Query(c, "GetByUserID", v.live /\ v.status = "approved", "none")

\* An update of the row there is, or the insertion of a row for this user, of
\* which there is one at most, deleted or not.
WriteApplication(c) ==
  LET u == UserOf(c) IN
  /\ Reaches(c, "WriteApplication")
  /\ IF call[c].saw = "rejected" THEN
       /\ GoOn(c, 1, "none")
       /\ vendors' = IF vendors[u].live THEN [vendors EXCEPT ![u].status = "pending"] ELSE vendors
     ELSE IF vendors[u].status = "none" THEN
       /\ GoOn(c, 1, "none")
       /\ vendors' = [vendors EXCEPT ![u] = [status |-> "pending", live |-> TRUE, by |-> c]]
     ELSE End(c, "failed") /\ UNCHANGED vendors
  /\ UNCHANGED <<users, tokens, products, before>>

\* Mistake: the status is the name of the log's action.
ActionName(c) == IF Kind(c) = "ApproveVendor" THEN "vendor_approved" ELSE "vendor_rejected"

Wanted(c) == IF Kind(c) = "ApproveVendor" THEN "approved" ELSE "rejected"

\* Any row, deleted or not.
SelectStatus(c) ==
  LET status == vendors[UserOf(c)].status IN
  /\ Reaches(c, "SelectStatus")
  /\ IF status = "none" THEN End(c, "refused")
     ELSE GoOn(c, IF status = Wanted(c) THEN 2 ELSE 1, status)
  /\ UNCHANGED <<rows, before>>

\* The status, the row of the audit log, and the commit of both.
SetStatus(c) ==
  /\ Write(c, "SetStatus")
  /\ vendors' = [vendors EXCEPT ![UserOf(c)].status = Wanted(c)]
  /\ UNCHANGED <<users, tokens, products>>

SoftDeleteVendor(c) ==
  /\ Write(c, "SoftDeleteVendor")
  /\ vendors' = IF vendors[UserOf(c)].live
                THEN [vendors EXCEPT ![UserOf(c)].live = FALSE, ![UserOf(c)].status = "deleted"]
                ELSE vendors
  /\ UNCHANGED <<users, tokens, products>>

SoftDeleteUser(c) ==
  /\ Write(c, "SoftDeleteUser")
  /\ users' = [users EXCEPT ![UserOf(c)].live = FALSE]
  /\ UNCHANGED <<vendors, tokens, products>>

UpdateRole(c) ==
  /\ Write(c, "UpdateRole")
  /\ users' = IF users[UserOf(c)].live THEN [users EXCEPT ![UserOf(c)].role = "buyer"] ELSE users
  /\ UNCHANGED <<vendors, tokens, products>>

----------------------------------------------------------------------------
(* Products *)

GetProduct(c) == Query(c, "GetProduct", products[Thing(c)].status # "none", "none")

Unpublish(c) ==
  /\ Write(c, "Unpublish")
  /\ products' = [x \in Things |->
       IF products[x].owner = UserOf(c) /\ products[x].status = "published"
       THEN [products[x] EXCEPT !.status = "draft"] ELSE products[x]]
  /\ UNCHANGED <<users, vendors, tokens>>

\* A transaction of its own: a vendor's writes are to its own products, and give
\* them the status the request asks for.
WriteProduct(c) ==
  LET x == Thing(c) owned == products[x].status # "none" /\ products[x].owner = UserOf(c) IN
  /\ Reaches(c, "WriteProduct")
  /\ \/ /\ Kind(c) = "CreateProduct" \/ (Kind(c) = "UpdateProduct" /\ owned)
        /\ \E s \in {"draft", "published"} :
             products' = [products EXCEPT ![x] = [owner |-> UserOf(c), status |-> s, by |-> c]]
        /\ GoOn(c, 1, "none")
     \/ /\ Kind(c) = "DeleteProduct" \/ (Kind(c) = "DropProduct" /\ owned)
        /\ products' = [products EXCEPT ![x].status = "none"]
        /\ GoOn(c, 1, "none")
     \/ /\ Kind(c) \in {"UpdateProduct", "DropProduct"} /\ ~owned
        /\ End(c, "refused")
        /\ UNCHANGED products
  /\ UNCHANGED <<users, vendors, tokens, before>>

----------------------------------------------------------------------------

Statement(c) ==
  \/ Begin(c) \/ Commit(c)
  \/ GetByEmail(c) \/ IsValid(c) \/ Revoke(c) \/ Issue(c) \/ RevokeAll(c)
  \/ GetVendor(c) \/ GetUser(c) \/ GetByUserID(c) \/ WriteApplication(c)
  \/ SelectStatus(c) \/ SetStatus(c) \/ SoftDeleteVendor(c) \/ SoftDeleteUser(c) \/ UpdateRole(c)
  \/ GetProduct(c) \/ Unpublish(c) \/ WriteProduct(c)

Next == \E c \in Calls : Arrive(c) \/ Statement(c) \/ Drop(c) \/ Fail(c)

\* A request that is under way is served. It need not fail.
Spec == Init /\ [][Next]_vars /\ \A c \in Calls : WF_vars(Statement(c))

----------------------------------------------------------------------------
(* Correctness *)

Statements == UNION {Range(Script[k]) : k \in Kinds}

CallState ==
  [kind : Kinds \union {"none"}, user : Users, thing : Things, todo : Seq(Statements),
   saw : Roles \union {"none", "pending", "approved", "rejected", "deleted"},
   end : {"no", "done", "refused", "failed"}, lost : BOOLEAN]

\* The type of the state.
TypeOK ==
  /\ users \in [Users -> [role : Roles, live : BOOLEAN]]
  /\ vendors \in [Users -> [status : {"none", "pending", "approved", "rejected", "deleted"},
                            live : BOOLEAN, by : Things]]
  /\ tokens \in [Things -> [user : Users, role : Roles, status : {"none", "live", "revoked"}]]
  /\ products \in [Things -> [owner : Users, status : {"none", "draft", "published"}, by : Things]]
  /\ call \in [Calls -> CallState]
  /\ before \subseteq Calls \X Calls

Overlap(c, d) == Began(c) /\ Began(d) /\ <<c, d>> \notin before /\ <<d, c>> \notin before

\* A refresh token is exchanged for two new ones only by requests that overlap, or
\* when the revocation between the check and the exchange failed
\* (AuthService.Refresh: "rotate: revoke old, mint new").
RotatedOnce ==
  \A c, d \in Calls :
    /\ c # d
    /\ Kind(c) = "Refresh" /\ Kind(d) = "Refresh" /\ Thing(c) = Thing(d)
    /\ tokens[c].status # "none" /\ tokens[d].status # "none"
    => Overlap(c, d) \/ call[c].lost \/ call[d].lost

\* x, the token it was exchanged for, and so on.
Lineage(x) ==
  {y \in Things : \A S \in SUBSET Things :
     (x \in S /\ \A c \in S \cap Calls : Kind(c) = "Refresh" => Thing(c) \in S) => y \in S}

\* However far a deletion got before it failed: a deleted user has no valid refresh
\* token but by a login or a refresh that overlapped the deletion, and a role that
\* was taken from a vendor lives on only in the successors of such a token
\* (DeleteUser, DeleteVendor: nothing is in the transaction but the log).
SessionsEnd ==
  \A x \in Things : tokens[x].status = "live" =>
    /\ \/ users[tokens[x].user].live
       \/ \E d \in Calls, y \in Lineage(x) :
            Kind(d) = "DeleteUser" /\ UserOf(d) = tokens[x].user /\ y \in Calls /\ Overlap(y, d)
    /\ \/ users[tokens[x].user].role = tokens[x].role
       \/ \E d \in Calls, y \in Lineage(x) :
            Kind(d) = "DeleteVendor" /\ UserOf(d) = tokens[x].user /\ y \in Calls /\ Overlap(y, d)

\* However far a deletion got: a product of a deleted vendor is published only by a
\* request of the vendor's that overlapped the deletion, and a deleted user keeps a
\* vendor only if it was not found, for an error of the query, or was not there yet.
ShopsClose ==
  /\ \A x \in Things :
       products[x].status = "published" =>
         \/ vendors[products[x].owner].live
         \/ \E d \in Calls : /\ Kind(d) \in {"DeleteUser", "DeleteVendor"}
                             /\ UserOf(d) = products[x].owner
                             /\ products[x].by \in Calls /\ Overlap(products[x].by, d)
  /\ \A u \in Users :
       HasVendor(u) =>
         \/ users[u].live
         \/ \E d \in Calls : /\ Kind(d) = "DeleteUser" /\ UserOf(d) = u
                             /\ \/ call[d].lost
                                \/ vendors[u].by \in Calls /\ <<vendors[u].by, d>> \notin before

\* Every connection is held by a transaction that waits for one more.
Exhausted ==
  /\ Cardinality(Holding) >= PoolSize
  /\ \A c \in Holding : UnderWay(c) /\ Head(call[c].todo) \notin InTransaction

\* Every request ends, unless from some time on the pool is exhausted.
RequestsEnd == \A c \in Calls : []<>~UnderWay(c) \/ <>[]Exhausted
=============================================================================
