------------------------------- MODULE Accounts -------------------------------
(***************************************************************************)
(* Accounts, sessions, invites and personal data: lib/register.ts,         *)
(* oauth.ts, credentials.ts, auth.ts, invites.ts and me-privacy.ts, with   *)
(* the guards of middleware-rules.ts and route-auth.ts in front of them.   *)
(* A browser has a session (a signed JWT that is never read again from the *)
(* database) and at most one request under way, which waits at its awaits  *)
(* while other requests come in between.  MySQL runs transactions at       *)
(* REPEATABLE READ: the reads of one share the snapshot of the first, its  *)
(* writes and the unique indexes see what has been committed by then.      *)
(*                                                                         *)
(* Of a password the model keeps whether the account has one.  Requests    *)
(* whose payload a contract refuses (no consent, a malformed address),     *)
(* whose token is forged or has expired, or that a guard answers with 401  *)
(* or 403 change nothing and are left out.                                 *)
(***************************************************************************)
EXTENDS Naturals, FiniteSets

CONSTANTS
  Browsers,
  Emails,
  Shops,
  MaxUsers,    \* bound on the rows ever inserted into User
  InviteIds,   \* the rows that may be inserted into Invite
  ApptIds,     \* the rows that may be inserted into Appointment
  Seeds,       \* the accounts of packages/db/prisma/seed.ts, by id from 1 on
  ProfileId,   \* the id Auth.js makes up for the user of a Google profile
  None

UserIds == 1..MaxUsers
Roles == {"client", "barber", "barbershop_admin"}

\* `address` and `invite` are history: what the row was created with.
Account ==
  [email : Emails \cup UserIds, passwordHash : BOOLEAN,
   role : Roles, barbershopId : Shops \cup {None},
   consent : BOOLEAN, address : Emails, invite : InviteIds \cup {None}]

Session ==
  [id : UserIds \cup {ProfileId}, email : Emails \cup UserIds, role : Roles,
   barbershopId : Shops \cup {None}]

Invite ==
  [email : Emails, barbershopId : Shops, consumed : BOOLEAN, by : Session]

\* An appointment and whether mail about it may wait in the outbox (the worker
\* may have sent it).  `late` is history: its client's deletion was under way, or
\* over, when it was booked.
Appointment ==
  [client : UserIds, status : {"open", "past", "cancelled"}, mail : BOOLEAN,
   late : BOOLEAN]

ASSUME AccountsAssumption ==
  /\ MaxUsers \in Nat
  /\ ProfileId \notin UserIds
  /\ None \notin UserIds /\ None \notin Emails /\ None \notin Shops
  /\ None \notin InviteIds
  /\ Emails \cap UserIds = {}
  /\ None \notin Account /\ None \notin Session /\ None \notin Invite
  /\ DOMAIN Seeds \subseteq UserIds
  /\ \A i \in DOMAIN Seeds :
       /\ Seeds[i] \in Account
       /\ Seeds[i].email = Seeds[i].address
       /\ Seeds[i].invite = None
       /\ \A j \in DOMAIN Seeds : Seeds[i].email = Seeds[j].email => i = j

VARIABLES
  user,     \* the User table
  barber,   \* the Barber table: the shop of the profile of each user
  invite,   \* the Invite table
  appt,     \* the Appointment table
  session,  \* the JWT in each browser
  call      \* where each browser's request is, and its locals

vars == <<user, barber, invite, appt, session, call>>
rows == <<user, barber, invite, appt>>

NoCall == [at |-> "none"]

Call ==
  {NoCall}
    \cup [at : {"RegisterCreate", "SignInFind", "GoogleCreate", "GoogleRefind"},
         email : Emails]
    \cup [at : {"SignInVerify"}, id : UserIds, row : Account]
    \cup [at : {"AcceptCommit"}, invite : InviteIds]
    \cup [at : {"BookCommit"}, id : UserIds \cup {ProfileId}]
    \cup [at : {"DeleteCommit"}, id : UserIds, listed : SUBSET ApptIds]

Init ==
  /\ user = [i \in UserIds |-> IF i \in DOMAIN Seeds THEN Seeds[i] ELSE None]
  /\ barber = [i \in UserIds |->
                 IF i \in DOMAIN Seeds
                   THEN IF Seeds[i].role = "barber" THEN Seeds[i].barbershopId ELSE None
                   ELSE None]
  /\ invite = [v \in InviteIds |-> None]
  /\ appt = [a \in ApptIds |-> None]
  /\ session = [b \in Browsers |-> None]
  /\ call = [b \in Browsers |-> NoCall]

-----------------------------------------------------------------------------
(* Guards: middleware-rules.ts in front of route-auth.ts.                    *)

decideProtection(path, s) ==
  CASE path = "/api/admin"    -> s # None /\ s.role = "barbershop_admin"
    [] path = "/api/bookings" -> s # None
    [] OTHER                  -> TRUE

guardAdmin(s) == s # None /\ s.role = "barbershop_admin" /\ s.barbershopId # None

guardBookingSession(s) == s # None

(* The table User and its unique index on email.                             *)

Fresh(i) ==
  /\ user[i] = None
  /\ \A j \in UserIds : j < i => user[j] # None

Holds(i, e) == user[i] # None /\ user[i].email = e

Taken(e) == \E i \in UserIds : Holds(i, e)

\* MUTANT of UniqueEmail: the column has no unique index.
NoUniqueEmail(e) == TRUE

UniqueEmail(e) == ~Taken(e)

\* MUTANT of anonymizedEmailFor: the address is cleared like name and phone.
ClearedEmail(i) == None

anonymizedEmailFor(i) == i

Deleted(i) == user[i] # None /\ user[i].email = anonymizedEmailFor(i)

NewClient(e, hasPassword) ==
  [email |-> e, passwordHash |-> hasPassword, role |-> "client",
   barbershopId |-> None, consent |-> TRUE,
   address |-> e, invite |-> None]

NewBarber(v) ==
  [email |-> invite[v].email, passwordHash |-> TRUE, role |-> "barber",
   barbershopId |-> invite[v].barbershopId, consent |-> TRUE,
   address |-> invite[v].email, invite |-> v]

toSessionUser(i, row) ==
  [id |-> i, email |-> row.email, role |-> row.role,
   barbershopId |-> row.barbershopId]

\* MUTANT of GoogleSession: the jwt callback never sees the role of the row,
\* so the session callback's `?? "client"` decides.
GoogleSessionAsClient(e, row) ==
  [id |-> ProfileId, email |-> e, role |-> "client", barbershopId |-> None]

\* The signIn callback copies role and tenant onto the profile's user; the id
\* stays the one Auth.js gave it.
GoogleSession(e, row) ==
  [id |-> ProfileId, email |-> e, role |-> row.role,
   barbershopId |-> row.barbershopId]

Idle(b) == call[b] = NoCall
Goes(b, c) == call' = [call EXCEPT ![b] = c]
Ends(b) == Goes(b, NoCall)

-----------------------------------------------------------------------------
(* POST /api/auth/register, and the sign-in the form makes on a 201.         *)

\* Answered 409 when the address is taken.
RegisterLook(b, e) ==
  /\ Idle(b)
  /\ ~Taken(e)
  /\ Goes(b, [at |-> "RegisterCreate", email |-> e])
  /\ UNCHANGED <<rows, session>>

\* A violated unique index is not caught: the answer is 500 and the form stays.
RegisterCreate(b) ==
  /\ call[b].at = "RegisterCreate"
  /\ IF UniqueEmail(call[b].email)
       THEN /\ \E i \in UserIds :
                 /\ Fresh(i)
                 /\ user' = [user EXCEPT ![i] = NewClient(call[b].email, TRUE)]
            /\ Goes(b, [call[b] EXCEPT !.at = "SignInFind"])
       ELSE UNCHANGED user /\ Ends(b)
  /\ UNCHANGED <<barber, invite, appt, session>>

(* Sign-in with address and password.                                        *)

\* From the login form, or by the registration form after its 201.
SignInFind(b, e) ==
  /\ Idle(b) \/ (call[b].at = "SignInFind" /\ call[b].email = e)
  /\ \/ /\ \A i \in UserIds : Holds(i, e) => ~user[i].passwordHash
        /\ Ends(b)
     \/ \E i \in UserIds :
          /\ Holds(i, e)
          /\ user[i].passwordHash
          /\ Goes(b, [at |-> "SignInVerify", id |-> i, row |-> user[i]])
  /\ UNCHANGED <<rows, session>>

\* bcrypt takes a while: the row is the one read before it.  The password may be
\* the wrong one.
SignInVerify(b) ==
  /\ call[b].at = "SignInVerify"
  /\ \/ session' = [session EXCEPT ![b] = toSessionUser(call[b].id, call[b].row)]
     \/ UNCHANGED session
  /\ Ends(b)
  /\ UNCHANGED rows

(* Sign-in with Google: provisionOAuthUser, then the jwt callback.           *)

StartsGoogleSession(b, e, row) ==
  session' = [session EXCEPT ![b] = GoogleSession(e, row)]

GoogleFind(b, e) ==
  /\ Idle(b)
  /\ \/ /\ ~Taken(e)
        /\ Goes(b, [at |-> "GoogleCreate", email |-> e])
        /\ UNCHANGED session
     \/ \E i \in UserIds :
          /\ Holds(i, e)
          /\ StartsGoogleSession(b, e, user[i])
          /\ Ends(b)
  /\ UNCHANGED rows

GoogleCreate(b) ==
  /\ call[b].at = "GoogleCreate"
  /\ IF UniqueEmail(call[b].email)
       THEN LET row == NewClient(call[b].email, FALSE) IN
            /\ \E i \in UserIds : Fresh(i) /\ user' = [user EXCEPT ![i] = row]
            /\ StartsGoogleSession(b, call[b].email, row)
            /\ Ends(b)
       ELSE /\ Goes(b, [call[b] EXCEPT !.at = "GoogleRefind"])
            /\ UNCHANGED <<user, session>>
  /\ UNCHANGED <<barber, invite, appt>>

\* The winner of the race may be gone again; the sign-in fails then.
GoogleRefind(b) ==
  /\ call[b].at = "GoogleRefind"
  /\ \/ ~Taken(call[b].email) /\ UNCHANGED session
     \/ \E i \in UserIds :
          Holds(i, call[b].email) /\ StartsGoogleSession(b, call[b].email, user[i])
  /\ Ends(b)
  /\ UNCHANGED rows

\* The session ends: signing out, or the JWT expires.
SessionEnds(b) ==
  /\ Idle(b)
  /\ session[b] # None
  /\ session' = [session EXCEPT ![b] = None]
  /\ UNCHANGED <<rows, call>>

-----------------------------------------------------------------------------
(* Invites.                                                                  *)

\* POST /api/admin/invites writes one row; the answer carries the token.
CreateInvite(b, e) ==
  /\ Idle(b)
  /\ decideProtection("/api/admin", session[b])
  /\ guardAdmin(session[b])
  /\ \E v \in InviteIds :
       /\ invite[v] = None
       /\ invite' = [invite EXCEPT ![v] =
            [email |-> e, barbershopId |-> session[b].barbershopId,
             consumed |-> FALSE, by |-> session[b]]]
  /\ UNCHANGED <<user, barber, appt, session, call>>

\* The token is verified and the password hashed before the transaction; its two
\* reads share one snapshot, so they are one step.
AcceptInvite(b, v) ==
  /\ Idle(b)
  /\ invite[v] # None
  /\ ~invite[v].consumed
  /\ ~Taken(invite[v].email)
  /\ Goes(b, [at |-> "AcceptCommit", invite |-> v])
  /\ UNCHANGED <<rows, session>>

\* MUTANT of Consumes: the update of the invite is outside the transaction and
\* lost.
ConsumesNothing(v) == UNCHANGED invite

Consumes(v) == invite' = [invite EXCEPT ![v].consumed = TRUE]

\* The insert of the user waits for one of the same address to commit and then
\* fails; the writes after it are of rows nobody else has, and commit with it.
AcceptCommit(b) ==
  /\ call[b].at = "AcceptCommit"
  /\ LET v == call[b].invite IN
     IF UniqueEmail(invite[v].email)
       THEN /\ \E i \in UserIds :
                 /\ Fresh(i)
                 /\ user' = [user EXCEPT ![i] = NewBarber(v)]
                 /\ barber' = [barber EXCEPT ![i] = invite[v].barbershopId]
            /\ Consumes(v)
       ELSE UNCHANGED <<user, barber, invite>>
  /\ Ends(b)
  /\ UNCHANGED <<appt, session>>

-----------------------------------------------------------------------------
(* Bookings, as far as accounts meet them (Booking models the rest), and the *)
(* rights of the data subject.                                               *)

\* The clientId is the session's.
Book(b) ==
  /\ Idle(b)
  /\ decideProtection("/api/bookings", session[b])
  /\ guardBookingSession(session[b])
  /\ Goes(b, [at |-> "BookCommit", id |-> session[b].id])
  /\ UNCHANGED <<rows, session>>

Accounted(id) == id \in UserIds /\ user[id] # None

Leaving(i) ==
  \/ Deleted(i)
  \/ \E b \in Browsers : call[b].at = "DeleteCommit" /\ call[b].id = i

\* The foreign key of Appointment.client refuses an id that is no account's.
BookCommit(b) ==
  /\ call[b].at = "BookCommit"
  /\ IF Accounted(call[b].id)
       THEN \E a \in ApptIds :
              /\ appt[a] = None
              /\ appt' = [appt EXCEPT ![a] =
                   [client |-> call[b].id, status |-> "open", mail |-> TRUE,
                    late |-> Leaving(call[b].id)]]
       ELSE UNCHANGED appt
  /\ Ends(b)
  /\ UNCHANGED <<user, barber, invite, session>>

\* The appointment's start passes.
Starts(a) ==
  /\ appt[a] # None
  /\ appt[a].status = "open"
  /\ appt' = [appt EXCEPT ![a].status = "past"]
  /\ UNCHANGED <<user, barber, invite, session, call>>

\* MUTANT of Listed: only the appointments still to come are listed.
ListedToCome(i) ==
  {a \in ApptIds : appt[a] # None /\ appt[a].client = i /\ appt[a].status = "open"}

Listed(i) == {a \in ApptIds : appt[a] # None /\ appt[a].client = i}

\* DELETE /api/me; an id that is no account's is a 404.  Rows are never removed,
\* so what happens between the lookup and the transaction's list is one step.
DeleteList(b) ==
  /\ Idle(b)
  /\ guardBookingSession(session[b])
  /\ Accounted(session[b].id)
  /\ Goes(b, [at |-> "DeleteCommit", id |-> session[b].id,
              listed |-> Listed(session[b].id)])
  /\ UNCHANGED <<rows, session>>

Anonymized(i) ==
  [user[i] EXCEPT !.email = anonymizedEmailFor(i), !.passwordHash = FALSE,
                  !.consent = FALSE]

Resolved(a, listed, i) ==
  IF appt[a] = None \/ appt[a].client # i THEN appt[a]
  ELSE [appt[a] EXCEPT
          !.mail = @ /\ a \notin listed,
          !.status = IF @ = "open" THEN "cancelled" ELSE @]

\* The mail of the listed appointments goes, all those to come are cancelled,
\* listed or not, and the row is anonymised; role and tenant stay.
DeleteCommit(b) ==
  /\ call[b].at = "DeleteCommit"
  /\ appt' = [a \in ApptIds |-> Resolved(a, call[b].listed, call[b].id)]
  /\ user' = [user EXCEPT ![call[b].id] = Anonymized(call[b].id)]
  /\ Ends(b)
  /\ UNCHANGED <<barber, invite, session>>

\* A server crash or a lost connection: what was committed stays, the rest of
\* the request does not happen and a transaction rolls back.
CallDies(b) ==
  /\ ~Idle(b)
  /\ Ends(b)
  /\ UNCHANGED <<rows, session>>

Next ==
  \/ \E b \in Browsers :
       \/ RegisterCreate(b) \/ SignInVerify(b)
       \/ GoogleCreate(b) \/ GoogleRefind(b)
       \/ AcceptCommit(b)
       \/ Book(b) \/ BookCommit(b) \/ DeleteList(b) \/ DeleteCommit(b)
       \/ CallDies(b) \/ SessionEnds(b)
       \/ \E e \in Emails :
            \/ RegisterLook(b, e) \/ SignInFind(b, e) \/ GoogleFind(b, e)
            \/ CreateInvite(b, e)
       \/ \E v \in InviteIds : AcceptInvite(b, v)
  \/ \E a \in ApptIds : Starts(a)

Spec == Init /\ [][Next]_vars

-----------------------------------------------------------------------------
(* Properties.                                                               *)

\* Every variable has its type.
AccountsTypeOK ==
  /\ user \in [UserIds -> Account \cup {None}]
  /\ barber \in [UserIds -> Shops \cup {None}]
  /\ invite \in [InviteIds -> Invite \cup {None}]
  /\ appt \in [ApptIds -> Appointment \cup {None}]
  /\ session \in [Browsers -> Session \cup {None}]
  /\ call \in [Browsers -> Call]

\* However registrations (register.ts:65-69), Google sign-ins (oauth.ts:52-69)
\* and acceptances (invites.ts:181-184), which all look first and insert later,
\* race for an address, it never has two accounts, and a deleted account never
\* comes back under the address it was created with.
OneAccountPerAddress ==
  \A i, j \in UserIds :
    /\ user[i] # None /\ user[j] # None /\ user[i].email = user[j].email => i = j
    /\ user[i] # None => user[i].email \in {user[i].address, anonymizedEmailFor(i)}

\* A session speaks for an account made with the address it was opened for, with
\* that account's role and tenant, though it is never read again: Google sign-in
\* "must never silently change a barber/admin role" (oauth.ts:7-8), also for the
\* loser of the race for the address (oauth.ts:66-69).
SpeaksFor(s, i) ==
  /\ user[i] # None
  /\ s.email = user[i].address
  /\ s.role = user[i].role
  /\ s.barbershopId = user[i].barbershopId

SessionMatchesAccount ==
  \A b \in Browsers : session[b] # None =>
    /\ \E i \in UserIds : SpeaksFor(session[b], i)
    /\ session[b].id \in UserIds => SpeaksFor(session[b], session[b].id)

\* User, Barber and Invite agree (invites.ts:184-199): a profile that was not
\* seeded belongs to a barber of that shop whose invite an admin of the same
\* shop made and which is used up; a used invite has its account; and of the
\* accounts of one invite at most one is not deleted, however many accept it at
\* the same time.
StaffComeFromInvites ==
  /\ \A i \in UserIds \ DOMAIN Seeds :
       /\ (user[i] # None /\ user[i].role # "client") <=> barber[i] # None
       /\ barber[i] # None =>
            /\ user[i].invite # None
            /\ LET v == invite[user[i].invite] IN
               /\ v # None
               /\ v.consumed
               /\ v.by.role = "barbershop_admin"
               /\ barber[i] = v.barbershopId
               /\ barber[i] = v.by.barbershopId
               /\ barber[i] = user[i].barbershopId
  /\ \A v \in InviteIds : invite[v] # None /\ invite[v].consumed =>
       \E i \in UserIds : user[i] # None /\ user[i].invite = v
  /\ \A i, j \in UserIds :
       /\ user[i] # None /\ user[j] # None
       /\ ~Deleted(i) /\ ~Deleted(j)
       /\ user[i].invite # None /\ user[i].invite = user[j].invite
       => i = j

\* A deletion (me-privacy.ts:101-142) leaves nothing behind: the account cannot
\* be signed in to and keeps no consent, and every appointment booked before the
\* deletion read them is cancelled or past, with no mail left in the outbox.
DeletedLeavesNothingBehind ==
  \A i \in UserIds : Deleted(i) =>
    /\ ~user[i].passwordHash
    /\ ~user[i].consent
    /\ \A a \in ApptIds : appt[a] # None /\ appt[a].client = i /\ ~appt[a].late =>
         appt[a].status # "open" /\ ~appt[a].mail
=============================================================================
