----------------------------- MODULE RunContract -----------------------------
(***************************************************************************)
(* What a run promises about the resources of a deployment and the         *)
(* workloads that use them.  Users begin only while the run goes on, and   *)
(* end when they like.  A run that fails or is given up releases its       *)
(* resources before its caller gets to know, but every user that is then   *)
(* still active has been told to stop; a run that succeeds leaves no user  *)
(* behind and keeps the resources until its handle is dropped.             *)
(***************************************************************************)
CONSTANT User        \* those who use the resources

VARIABLES
    verdict,     \* "pending", "ok", "err" or "dropped" (the caller gave up)
    resources,   \* "none" (no cleanup guard), "held" or "released"
    user,        \* user[u]: "idle", "active" or "gone"
    told         \* the users that were told to stop

cvars == <<verdict, resources, user, told>>

Active == {u \in User : user[u] = "active"}

CInit ==
    /\ verdict = "pending"
    /\ resources \in {"none", "held"}
    /\ user = [u \in User |-> "idle"]
    /\ told = {}

\* Some users begin.
Begin ==
    /\ verdict = "pending"
    /\ resources # "released"
    /\ \E some \in SUBSET User :
          /\ \A u \in some : user[u] = "idle"
          /\ user' = [u \in User |-> IF u \in some THEN "active" ELSE user[u]]
    /\ UNCHANGED <<verdict, resources, told>>

\* A user is done, whatever the run does.
End ==
    /\ \E u \in User : user[u] = "active" /\ user' = [user EXCEPT ![u] = "gone"]
    /\ UNCHANGED <<verdict, resources, told>>

TellToStop ==
    /\ verdict = "pending"
    /\ told \subseteq told'
    /\ UNCHANGED <<verdict, resources, user>>

Release == resources' = IF resources = "held" THEN "released" ELSE resources

Succeed ==
    /\ verdict = "pending"
    /\ Active = {}
    /\ verdict' = "ok"
    /\ UNCHANGED <<resources, user, told>>

FailOrGiveUp ==
    /\ verdict = "pending"
    /\ verdict' \in {"err", "dropped"}
    /\ told \subseteq told'
    /\ Active \subseteq told'
    /\ Release
    /\ UNCHANGED user

DropHandle ==
    /\ verdict = "ok"
    /\ resources = "held"
    /\ Release
    /\ UNCHANGED <<verdict, user, told>>

CNext == Begin \/ End \/ TellToStop \/ Succeed \/ FailOrGiveUp \/ DropHandle

Contract == CInit /\ [][CNext]_cvars
=============================================================================
