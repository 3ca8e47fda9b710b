----------------------------- MODULE Superusers -----------------------------
(***************************************************************************)
(* Superusers manage administrators.  A request authenticates its actor,   *)
(* whose row it keeps in memory, then works in a transaction that sees     *)
(* what others have committed.  update_admin locks the row it changes      *)
(* FOR UPDATE; reset_admin_password reads a row without a lock and writes  *)
(* all of it back.  Each transaction also writes an audit row that refers  *)
(* to its actor, whose key the commit has to lock: it waits while another  *)
(* transaction holds the actor's row FOR UPDATE.                           *)
(***************************************************************************)
CONSTANTS Admins, Requests, Nobody

VARIABLES
    row,        \* every administrator: active, superuser, mustChange
    req         \* what each worker is doing, and the row it is to write

vars == <<row, req>>

Idle == [at |-> "idle", actor |-> Nobody, target |-> Nobody, new |-> {}]

\* A row as the set of what is true of it; nothing is of one that is not there
Flags == SUBSET {"exists", "active", "superuser", "mustChange"}

\* "update": the target is held FOR UPDATE.  "read": a copy of the target is to
\* be written.  "saved": it was written, which holds the target as well, but
\* lets others lock its key
Steps == {"idle", "authenticated", "own", "update", "read", "saved"}

SuperusersTypeOK ==
    /\ row \in [Admins -> Flags]
    /\ req \in [Requests -> [at : Steps, actor : Admins \union {Nobody},
                             target : Admins \union {Nobody}, new : Flags]]

ActiveSuperuser(a) == {"active", "superuser"} \subseteq row[a]

SuperusersInit ==
    /\ row \in [Admins -> {{}, {"exists"}, {"exists", "active"}, {"exists", "active", "superuser"}}]
    /\ \E a \in Admins : ActiveSuperuser(a)
    /\ req = [r \in Requests |-> Idle]

Goto(r, next) == req' = [req EXCEPT ![r] = next]

\* SuperuserJWTAuth
Authenticate(r, a, b) ==
    /\ req[r].at = "idle" /\ ActiveSuperuser(a) /\ "mustChange" \notin row[a]
    /\ Goto(r, [at |-> "authenticated", actor |-> a, target |-> b, new |-> {}])
    /\ UNCHANGED row

Locked(a) == \E r \in Requests : req[r].at \in {"update", "saved"} /\ req[r].target = a

\* The audit row's reference to the actor, a deferred constraint, can be checked
ActorFree(r) ==
    \A s \in Requests \ {r} : ~(req[s].at = "update" /\ req[s].target = req[r].actor)

ActiveSuperusersExcluding(b) == {a \in Admins \ {b} : ActiveSuperuser(a)}

\* update_admin: the checks, on the row it locks and on what it sees of others
Permitted(a, b, new) ==
    LET loses == "superuser" \in row[b] /\ ~({"active", "superuser"} \subseteq new) IN
    /\ a = b => ("superuser" \in row[b] => "superuser" \in new) /\ "active" \in new
    /\ loses => ActiveSuperusersExcluding(b) # {}

UpdateAdmin(r) ==
    LET b == req[r].target IN
    /\ req[r].at = "authenticated" /\ "exists" \in row[b] /\ ~Locked(b)
    /\ \E flags \in SUBSET {"active", "superuser"} :
          LET new == flags \union (row[b] \intersect {"exists", "mustChange"}) IN
          /\ Permitted(req[r].actor, b, new)
          /\ Goto(r, [req[r] EXCEPT !.at = "update", !.new = new])
    /\ UNCHANGED row

\* reset_admin_password: the row is read, and the password is hashed ...
ResetAdminPassword(r) ==
    LET b == req[r].target IN
    /\ req[r].at = "authenticated" /\ "exists" \in row[b]
    /\ Goto(r, [req[r] EXCEPT !.at = "read", !.new = row[b] \union {"mustChange"}])
    /\ UNCHANGED row

\* ... and every column of the copy is written, once nobody holds the row
SaveReset(r) ==
    /\ req[r].at = "read" /\ ~Locked(req[r].target)
    /\ Goto(r, [req[r] EXCEPT !.at = "saved"])
    /\ UNCHANGED row

Commit(r) ==
    /\ req[r].at \in {"update", "saved"} /\ ActorFree(r)
    /\ row' = [row EXCEPT ![req[r].target] = req[r].new]
    /\ Goto(r, Idle)

\* The victim of a deadlock, or a process that dies; a check that refuses
Abort(r) ==
    /\ req[r].at # "idle"
    /\ Goto(r, Idle)
    /\ UNCHANGED row

\* create_admin: an insertion, with a temporary password, and its commit
CreateAdmin(r, super) ==
    LET b == req[r].target IN
    /\ req[r].at = "authenticated" /\ row[b] = {} /\ ActorFree(r)
    /\ row' = [row EXCEPT ![b] = {"exists", "active", "mustChange"} \union super]
    /\ Goto(r, Idle)

\* change_own_password, which a temporary password permits, writes its columns only
AuthenticateOwn(r, a) ==
    /\ req[r].at = "idle" /\ "active" \in row[a]
    /\ Goto(r, [at |-> "own", actor |-> a, target |-> a, new |-> {}])
    /\ UNCHANGED row

ChangeOwnPassword(r) ==
    LET a == req[r].target IN
    /\ req[r].at = "own" /\ ~Locked(a)
    /\ row' = [row EXCEPT ![a] = @ \ {"mustChange"}]
    /\ Goto(r, Idle)

SuperusersNext ==
    \/ \E r \in Requests, a, b \in Admins : Authenticate(r, a, b) \/ AuthenticateOwn(r, a)
    \/ \E r \in Requests :
          \/ UpdateAdmin(r) \/ ResetAdminPassword(r) \/ SaveReset(r)
          \/ (\E super \in SUBSET {"superuser"} : CreateAdmin(r, super))
          \/ ChangeOwnPassword(r) \/ Commit(r) \/ Abort(r)

SuperusersSpec == SuperusersInit /\ [][SuperusersNext]_vars

\* The system is never left without an active superuser (admin_auth.py,
\* docstring of update_admin).  A row that was read before others were committed
\* is written back as it was.
SuperuserRemains == \E a \in Admins : ActiveSuperuser(a)
=============================================================================
