---------------------------- MODULE Invitations ----------------------------
(***************************************************************************)
(* The acceptance of an invitation (core/api.py, core/models.py): the one  *)
(* way to an account.  A request reads the invitation once, checks the     *)
(* password, then reads it again under the lock of its row and creates the *)
(* user there; the session is opened afterwards.  Two clicks on one link,  *)
(* its expiry, and an administrator who creates or deletes the user of     *)
(* that address, may come between any two of these.                        *)
(***************************************************************************)
EXTENDS Naturals, FiniteSets

CONSTANTS Request       \* the requests made with one link

VARIABLES
    stage,          \* where each request stands
    accepted,       \* accepted_at is set
    expired,        \* expires_at is past
    user,           \* a user with the invited address exists
    served          \* history: the requests that created one

invitationVars == <<stage, accepted, expired, user, served>>

InvitationInit ==
    /\ stage = [c \in Request |-> "unsent"]
    /\ accepted = FALSE /\ expired = FALSE /\ user = FALSE /\ served = {}

IsUsable == ~accepted /\ ~expired

Answer(c, code) == stage' = [stage EXCEPT ![c] = code]

\* The first read and the password: a refusal here costs the invitation nothing.
Checks(c) ==
    /\ stage[c] = "unsent"
    /\ \/ IsUsable /\ (Answer(c, "checked") \/ Answer(c, "password-invalid"))
       \/ ~IsUsable /\ Answer(c, "invitation-invalid")
    /\ UNCHANGED <<accepted, expired, user, served>>

\* Mutant: the row is not read again under its lock.
UsableAsRead(c) == TRUE

\* The second read, under the lock.
UsableUnderLock(c) == IsUsable

\* The transaction: the user and the mark on the invitation, or neither.  An address
\* already taken makes it fail as a whole.
Accepts(c) ==
    /\ stage[c] = "checked"
    /\ \/ /\ UsableUnderLock(c) /\ ~user
          /\ user' = TRUE /\ accepted' = TRUE
          /\ served' = served \cup {c}
          /\ Answer(c, "created")
       \/ /\ UsableUnderLock(c) /\ user
          /\ Answer(c, "email-taken")
          /\ UNCHANGED <<user, accepted, served>>
       \/ /\ ~UsableUnderLock(c)
          /\ Answer(c, "invitation-invalid")
          /\ UNCHANGED <<user, accepted, served>>
    /\ UNCHANGED expired

\* login and record_authentication, out of the transaction.
OpensSession(c) ==
    /\ stage[c] = "created"
    /\ Answer(c, "session")
    /\ UNCHANGED <<accepted, expired, user, served>>

Expires ==
    /\ ~expired
    /\ expired' = TRUE
    /\ UNCHANGED <<stage, accepted, user, served>>

\* External: the administration creates the user by other means, or deletes it, which
\* leaves accepted_at as it is (SET_NULL bears on accepted_user alone).
UserComesOrGoes ==
    /\ user' = ~user
    /\ UNCHANGED <<stage, accepted, expired, served>>

InvitationNext ==
    \/ \E c \in Request : Checks(c) \/ Accepts(c) \/ OpensSession(c)
    \/ Expires \/ UserComesOrGoes

InvitationSpec == InvitationInit /\ [][InvitationNext]_invitationVars

-----------------------------------------------------------------------------
\* One link makes one account, ever: two clicks are served once, even when the first
\* user is deleted between the two reads of the second; and an invitation is never
\* spent without having made one.
InvitationServesOnce == Cardinality(served) <= 1 /\ (accepted <=> served # {})
=============================================================================
