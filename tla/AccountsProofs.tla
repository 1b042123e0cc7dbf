---------------------------- MODULE AccountsProofs ----------------------------
(***************************************************************************)
(* Theorems about Accounts for every set of browsers, addresses, shops,    *)
(* invites and appointments, any seed and any number of accounts.          *)
(***************************************************************************)
EXTENDS Accounts, TLAPS

-----------------------------------------------------------------------------
(* What the step a request is at says about its locals.                      *)

LEMMA CallShape ==
  ASSUME NEW c \in Call
  PROVE  /\ c.at \in {"RegisterCreate", "SignInFind", "GoogleCreate", "GoogleRefind"} =>
              /\ c.email \in Emails
              /\ [c EXCEPT !.at = "SignInFind"] \in Call
              /\ [c EXCEPT !.at = "GoogleRefind"] \in Call
         /\ c.at = "SignInVerify" => c.id \in UserIds /\ c.row \in Account
         /\ c.at = "AcceptCommit" => c.invite \in InviteIds
         /\ c.at = "BookCommit" => c.id \in UserIds \cup {ProfileId}
         /\ c.at = "DeleteCommit" => c.id \in UserIds /\ c.listed \in SUBSET ApptIds
BY DEF Call, NoCall

LEMMA CallsMade ==
  /\ NoCall \in Call
  /\ \A e \in Emails :
       /\ [at |-> "RegisterCreate", email |-> e] \in Call
       /\ [at |-> "GoogleCreate", email |-> e] \in Call
  /\ \A i \in UserIds, r \in Account :
       [at |-> "SignInVerify", id |-> i, row |-> r] \in Call
  /\ \A v \in InviteIds : [at |-> "AcceptCommit", invite |-> v] \in Call
  /\ \A i \in UserIds \cup {ProfileId} : [at |-> "BookCommit", id |-> i] \in Call
  /\ \A i \in UserIds, l \in SUBSET ApptIds :
       [at |-> "DeleteCommit", id |-> i, listed |-> l] \in Call
BY DEF Call

LEMMA AccountFields ==
  ASSUME NEW r \in Account
  PROVE  /\ r # None
         /\ r.email \in Emails \cup UserIds
         /\ r.passwordHash \in BOOLEAN /\ r.consent \in BOOLEAN
         /\ r.role \in Roles
         /\ r.barbershopId \in Shops \cup {None}
         /\ r.address \in Emails
         /\ r.invite \in InviteIds \cup {None}
BY AccountsAssumption DEF Account

LEMMA InviteFields ==
  ASSUME NEW v \in Invite
  PROVE  /\ v # None
         /\ v.email \in Emails /\ v.barbershopId \in Shops
         /\ v.consumed \in BOOLEAN /\ v.by \in Session
BY AccountsAssumption DEF Invite

LEMMA NewClientFields ==
  ASSUME NEW e \in Emails, NEW h \in BOOLEAN
  PROVE  /\ NewClient(e, h) \in Account
         /\ NewClient(e, h).email = e /\ NewClient(e, h).address = e
         /\ NewClient(e, h).role = "client"
         /\ NewClient(e, h).barbershopId = None
         /\ NewClient(e, h).invite = None
BY DEF NewClient, Account, Roles

LEMMA NewBarberFields ==
  ASSUME NEW v \in InviteIds, invite[v] \in Invite
  PROVE  /\ NewBarber(v) \in Account
         /\ NewBarber(v).email = invite[v].email
         /\ NewBarber(v).address = invite[v].email
         /\ NewBarber(v).role = "barber"
         /\ NewBarber(v).barbershopId = invite[v].barbershopId
         /\ NewBarber(v).invite = v
<1>1. invite[v].email \in Emails /\ invite[v].barbershopId \in Shops
  BY InviteFields
<1>2. QED
  BY <1>1 DEF NewBarber, Account, Roles

LEMMA AnonymizedFields ==
  ASSUME NEW i \in UserIds, user[i] \in Account
  PROVE  /\ Anonymized(i) \in Account
         /\ Anonymized(i).email = i
         /\ Anonymized(i).passwordHash = FALSE
         /\ Anonymized(i).consent = FALSE
         /\ Anonymized(i).address = user[i].address
         /\ Anonymized(i).role = user[i].role
         /\ Anonymized(i).barbershopId = user[i].barbershopId
         /\ Anonymized(i).invite = user[i].invite
BY DEF Anonymized, anonymizedEmailFor, Account

LEMMA SessionsMade ==
  ASSUME NEW r \in Account
  PROVE  /\ \A i \in UserIds : toSessionUser(i, r) \in Session
         /\ \A e \in Emails : GoogleSession(e, r) \in Session
BY DEF Account, Session, toSessionUser, GoogleSession

-----------------------------------------------------------------------------
(* Type correctness.  The rows a request works on exist, and a password is   *)
(* verified against a row that still tells whose account it is.              *)

SameOwner(row, i) ==
  /\ user[i] # None
  /\ row.email = user[i].address
  /\ row.role = user[i].role
  /\ row.barbershopId = user[i].barbershopId

NamesRows(b) ==
  /\ call[b].at = "SignInVerify" => SameOwner(call[b].row, call[b].id)
  /\ call[b].at = "AcceptCommit" => invite[call[b].invite] # None
  /\ call[b].at = "DeleteCommit" => user[call[b].id] # None

CallsNameRows == \A b \in Browsers : NamesRows(b)

TypeInv == AccountsTypeOK /\ CallsNameRows /\ OneAccountPerAddress

LEMMA UserShape ==
  ASSUME AccountsTypeOK, NEW i \in UserIds, user[i] # None
  PROVE  user[i] \in Account
BY DEF AccountsTypeOK

LEMMA InviteShape ==
  ASSUME AccountsTypeOK, NEW v \in InviteIds, invite[v] # None
  PROVE  invite[v] \in Invite
BY DEF AccountsTypeOK

LEMMA SessionShape ==
  ASSUME AccountsTypeOK, NEW b \in Browsers, session[b] # None
  PROVE  session[b] \in Session
BY DEF AccountsTypeOK

\* An account an address of a person finds is the one made with that address.
LEMMA HolderWasMadeSo ==
  ASSUME TypeInv, NEW i \in UserIds, NEW e \in Emails, Holds(i, e)
  PROVE  user[i] \in Account /\ user[i].address = e /\ SameOwner(user[i], i)
BY UserShape, AccountsAssumption
DEF TypeInv, Holds, OneAccountPerAddress, anonymizedEmailFor, SameOwner

LEMMA TypeInvInit == Init => TypeInv
<1> SUFFICES ASSUME Init
             PROVE  TypeInv
  OBVIOUS
<1>1. \A i \in DOMAIN Seeds : Seeds[i] \in Account /\ i \in UserIds
  BY AccountsAssumption
<1>2. \A i \in UserIds : user[i] \in Account \cup {None}
  BY <1>1 DEF Init
<1>3. \A i \in UserIds : barber[i] \in Shops \cup {None}
  BY <1>1, AccountFields DEF Init
<1>4. AccountsTypeOK
  BY <1>2, <1>3, CallsMade DEF Init, AccountsTypeOK
<1>5. CallsNameRows
  BY DEF Init, CallsNameRows, NamesRows, NoCall
<1>6. OneAccountPerAddress
  BY <1>1, AccountsAssumption DEF Init, OneAccountPerAddress, anonymizedEmailFor
<1>7. QED
  BY <1>4, <1>5, <1>6 DEF TypeInv

\* Steps that write no row.
LEMMA RowsRest ==
  ASSUME TypeInv, UNCHANGED rows,
         session' \in [Browsers -> Session \cup {None}],
         NEW b \in Browsers, NEW c \in Call, Goes(b, c),
         c.at = "SignInVerify" => SameOwner(c.row, c.id),
         c.at = "AcceptCommit" => invite[c.invite] # None,
         c.at = "DeleteCommit" => user[c.id] # None
  PROVE  TypeInv'
<1>1. AccountsTypeOK'
  BY DEF TypeInv, AccountsTypeOK, rows, Goes
<1>2. CallsNameRows'
  BY DEF TypeInv, AccountsTypeOK, CallsNameRows, NamesRows, SameOwner, rows, Goes
<1>3. OneAccountPerAddress'
  BY DEF TypeInv, OneAccountPerAddress, rows
<1>4. QED
  BY <1>1, <1>2, <1>3 DEF TypeInv

\* Steps that add the account `row` under its own address, which nobody has.
LEMMA AccountAdded ==
  ASSUME TypeInv, NEW i \in UserIds, NEW row \in Account,
         user[i] = None, row.email = row.address, UniqueEmail(row.email),
         user' = [user EXCEPT ![i] = row],
         barber' \in [UserIds -> Shops \cup {None}],
         invite' \in [InviteIds -> Invite \cup {None}],
         \A v \in InviteIds : invite[v] # None => invite'[v] # None,
         appt' = appt,
         session' \in [Browsers -> Session \cup {None}],
         NEW b \in Browsers, NEW c \in Call, Goes(b, c),
         c.at \notin {"SignInVerify", "AcceptCommit", "DeleteCommit"}
  PROVE  TypeInv'
<1>1. user'[i] = row /\ \A j \in UserIds \ {i} : user'[j] = user[j]
  BY DEF TypeInv, AccountsTypeOK
<1>2. AccountsTypeOK'
  BY DEF TypeInv, AccountsTypeOK, Goes
<1>3. CallsNameRows'
  <2> SUFFICES ASSUME NEW x \in Browsers
               PROVE  NamesRows(x)'
    BY DEF CallsNameRows
  <2>1. CASE x = b
    BY <2>1 DEF TypeInv, AccountsTypeOK, Goes, NamesRows
  <2>2. CASE x # b
    <3>1. call'[x] = call[x] /\ call[x] \in Call
      BY <2>2 DEF TypeInv, AccountsTypeOK, Goes
    <3>2. \A j \in UserIds : user[j] # None => user'[j] = user[j]
      BY <1>1
    <3>3. NamesRows(x)
      BY DEF TypeInv, CallsNameRows
    <3>4. /\ call[x].at = "SignInVerify" => call[x].id \in UserIds
          /\ call[x].at = "AcceptCommit" => call[x].invite \in InviteIds
          /\ call[x].at = "DeleteCommit" => call[x].id \in UserIds
      BY <3>1, CallShape
    <3>5. QED
      BY <3>1, <3>2, <3>3, <3>4 DEF NamesRows, SameOwner
  <2>3. QED
    BY <2>1, <2>2
<1>4. OneAccountPerAddress'
  BY <1>1 DEF TypeInv, OneAccountPerAddress, UniqueEmail, Taken, Holds
<1>5. QED
  BY <1>2, <1>3, <1>4 DEF TypeInv

\* Steps that leave users and invites alone and take no request any further
\* than ending it.
LEMMA NamesKept ==
  ASSUME TypeInv, UNCHANGED <<user, invite>>,
         \A x \in Browsers : call'[x] = call[x] \/ call'[x] = NoCall
  PROVE  CallsNameRows' /\ OneAccountPerAddress'
<1>1. ASSUME NEW x \in Browsers
      PROVE  NamesRows(x)'
  BY <1>1 DEF TypeInv, CallsNameRows, NamesRows, SameOwner, NoCall
<1>2. QED
  BY <1>1 DEF TypeInv, CallsNameRows, OneAccountPerAddress

LEMMA TypeRegister ==
  ASSUME TypeInv, NEW b \in Browsers,
         RegisterCreate(b) \/ \E e \in Emails : RegisterLook(b, e)
  PROVE  TypeInv'
<1>0. call[b] \in Call /\ session' = session /\ session \in [Browsers -> Session \cup {None}]
  BY DEF TypeInv, AccountsTypeOK, RegisterCreate, RegisterLook
<1>1. ASSUME NEW e \in Emails, RegisterLook(b, e)
      PROVE  TypeInv'
  <2> DEFINE c == [at |-> "RegisterCreate", email |-> e]
  <2>1. c \in Call /\ Goes(b, c) /\ UNCHANGED rows
    BY <1>1, CallsMade DEF RegisterLook
  <2>2. QED
    BY <1>0, <2>1, RowsRest
<1>2. CASE RegisterCreate(b)
  <2>1. call[b].email \in Emails /\ [call[b] EXCEPT !.at = "SignInFind"] \in Call
    BY <1>0, <1>2, CallShape DEF RegisterCreate
  <2>2. [call[b] EXCEPT !.at = "SignInFind"].at = "SignInFind"
    BY <1>0, <1>2 DEF RegisterCreate, Call, NoCall
  <2>3. CASE UniqueEmail(call[b].email)
    <3> DEFINE row == NewClient(call[b].email, TRUE)
    <3> DEFINE c == [call[b] EXCEPT !.at = "SignInFind"]
    <3>1. row \in Account /\ row.email = call[b].email /\ row.address = call[b].email
      BY <2>1, NewClientFields
    <3>2. PICK i \in UserIds : Fresh(i) /\ user' = [user EXCEPT ![i] = row]
      BY <1>2, <2>3 DEF RegisterCreate
    <3>3. Goes(b, c) /\ UNCHANGED <<barber, invite, appt>>
      BY <1>2, <2>3 DEF RegisterCreate
    <3>4. /\ barber' \in [UserIds -> Shops \cup {None}]
          /\ invite' \in [InviteIds -> Invite \cup {None}]
      BY <3>3 DEF TypeInv, AccountsTypeOK
    <3>5. c \in Call /\ c.at = "SignInFind"
      BY <2>1, <2>2
    <3> HIDE DEF row, c
    <3>6. user[i] = None /\ UniqueEmail(row.email)
      BY <2>3, <3>1, <3>2 DEF Fresh
    <3>7. QED
      BY <1>0, <3>1, <3>2, <3>3, <3>4, <3>5, <3>6, AccountAdded
  <2>4. CASE ~ UniqueEmail(call[b].email)
    BY <1>0, <1>2, <2>4, CallsMade, RowsRest DEF RegisterCreate, Ends, NoCall, rows
  <2>5. QED
    BY <2>3, <2>4
<1>3. QED
  BY <1>1, <1>2

LEMMA TypeSignIn ==
  ASSUME TypeInv, NEW b \in Browsers,
         SignInVerify(b) \/ \E e \in Emails : SignInFind(b, e)
  PROVE  TypeInv'
<1>0. call[b] \in Call /\ session \in [Browsers -> Session \cup {None}] /\ UNCHANGED rows
  BY DEF TypeInv, AccountsTypeOK, SignInVerify, SignInFind
<1>1. ASSUME NEW e \in Emails, SignInFind(b, e)
      PROVE  TypeInv'
  <2>1. session' = session
    BY <1>1 DEF SignInFind
  <2>2. CASE Ends(b)
    BY <1>0, <2>1, <2>2, CallsMade, RowsRest DEF Ends, NoCall
  <2>3. ASSUME NEW i \in UserIds, Holds(i, e),
               Goes(b, [at |-> "SignInVerify", id |-> i, row |-> user[i]])
        PROVE  TypeInv'
    <3> DEFINE c == [at |-> "SignInVerify", id |-> i, row |-> user[i]]
    <3>1. c \in Call /\ SameOwner(c.row, c.id)
      BY <2>3, HolderWasMadeSo, CallsMade
    <3>2. c.at = "SignInVerify"
      OBVIOUS
    <3>3. QED
      BY <1>0, <2>1, <2>3, <3>1, <3>2, RowsRest
  <2>4. QED
    BY <1>1, <2>2, <2>3 DEF SignInFind
<1>2. CASE SignInVerify(b)
  <2>1. toSessionUser(call[b].id, call[b].row) \in Session
    BY <1>0, <1>2, CallShape, SessionsMade DEF SignInVerify
  <2>2. session' \in [Browsers -> Session \cup {None}]
    BY <1>0, <1>2, <2>1 DEF SignInVerify
  <2>3. QED
    BY <1>0, <1>2, <2>2, CallsMade, RowsRest DEF SignInVerify, Ends, NoCall
<1>3. QED
  BY <1>1, <1>2

LEMMA TypeGoogle ==
  ASSUME TypeInv, NEW b \in Browsers,
         GoogleCreate(b) \/ GoogleRefind(b) \/ \E e \in Emails : GoogleFind(b, e)
  PROVE  TypeInv'
<1>0. call[b] \in Call /\ session \in [Browsers -> Session \cup {None}]
  BY DEF TypeInv, AccountsTypeOK
<1>1. ASSUME NEW e \in Emails, NEW row \in Account, StartsGoogleSession(b, e, row)
      PROVE  session' \in [Browsers -> Session \cup {None}]
  BY <1>0, <1>1, SessionsMade DEF StartsGoogleSession
<1>2. ASSUME NEW e \in Emails, GoogleFind(b, e)
      PROVE  TypeInv'
  <2>1. CASE /\ Goes(b, [at |-> "GoogleCreate", email |-> e])
             /\ UNCHANGED session
    BY <1>0, <1>2, <2>1, CallsMade, RowsRest DEF GoogleFind
  <2>2. ASSUME NEW i \in UserIds, Holds(i, e), StartsGoogleSession(b, e, user[i]), Ends(b)
        PROVE  TypeInv'
    <3>1. session' \in [Browsers -> Session \cup {None}]
      BY <1>1, <2>2, HolderWasMadeSo
    <3>2. QED
      BY <1>2, <2>2, <3>1, CallsMade, RowsRest DEF GoogleFind, Ends, NoCall
  <2>3. QED
    BY <1>2, <2>1, <2>2 DEF GoogleFind
<1>3. CASE GoogleCreate(b)
  <2>1. /\ call[b].email \in Emails
        /\ [call[b] EXCEPT !.at = "GoogleRefind"] \in Call
        /\ [call[b] EXCEPT !.at = "GoogleRefind"].at = "GoogleRefind"
    <3>1. call[b].email \in Emails /\ [call[b] EXCEPT !.at = "GoogleRefind"] \in Call
      BY <1>0, <1>3, CallShape DEF GoogleCreate
    <3>2. [call[b] EXCEPT !.at = "GoogleRefind"].at = "GoogleRefind"
      BY <1>0, <1>3 DEF GoogleCreate, Call, NoCall
    <3>3. QED
      BY <3>1, <3>2
  <2> DEFINE row == NewClient(call[b].email, FALSE)
  <2>2. CASE UniqueEmail(call[b].email)
    <3>1. row \in Account /\ row.email = call[b].email /\ row.address = call[b].email
      BY <2>1, NewClientFields
    <3>2. PICK i \in UserIds : Fresh(i) /\ user' = [user EXCEPT ![i] = row]
      BY <1>3, <2>2 DEF GoogleCreate
    <3>3. /\ StartsGoogleSession(b, call[b].email, row) /\ Goes(b, NoCall)
          /\ UNCHANGED <<barber, invite, appt>>
      BY <1>3, <2>2 DEF GoogleCreate, Ends
    <3>4. session' \in [Browsers -> Session \cup {None}]
      BY <1>1, <2>1, <3>1, <3>3
    <3>5. /\ barber' \in [UserIds -> Shops \cup {None}]
          /\ invite' \in [InviteIds -> Invite \cup {None}]
      BY <3>3 DEF TypeInv, AccountsTypeOK
    <3>6. NoCall \in Call /\ NoCall.at = "none"
      BY CallsMade DEF NoCall
    <3> HIDE DEF row
    <3>7. user[i] = None /\ UniqueEmail(row.email)
      BY <2>2, <3>1, <3>2 DEF Fresh
    <3>8. QED
      BY <3>1, <3>2, <3>3, <3>4, <3>5, <3>6, <3>7, AccountAdded
  <2>3. CASE ~ UniqueEmail(call[b].email)
    <3>1. /\ Goes(b, [call[b] EXCEPT !.at = "GoogleRefind"])
          /\ session' = session /\ UNCHANGED rows
      BY <1>3, <2>3 DEF GoogleCreate, rows
    <3>2. QED
      BY <1>0, <2>1, <3>1, RowsRest
  <2>4. QED
    BY <2>2, <2>3
<1>4. CASE GoogleRefind(b)
  <2>1. call[b].email \in Emails
    BY <1>0, <1>4, CallShape DEF GoogleRefind
  <2>2. session' \in [Browsers -> Session \cup {None}]
    BY <1>0, <1>1, <1>4, <2>1, HolderWasMadeSo DEF GoogleRefind
  <2>3. QED
    BY <1>4, <2>2, CallsMade, RowsRest DEF GoogleRefind, Ends, NoCall
<1>5. QED
  BY <1>2, <1>3, <1>4

LEMMA TypeInvites ==
  ASSUME TypeInv, NEW b \in Browsers,
         \/ AcceptCommit(b)
         \/ \E e \in Emails : CreateInvite(b, e)
         \/ \E v \in InviteIds : AcceptInvite(b, v)
  PROVE  TypeInv'
<1>0. call[b] \in Call /\ session \in [Browsers -> Session \cup {None}]
  BY DEF TypeInv, AccountsTypeOK
<1>1. ASSUME NEW v \in InviteIds, AcceptInvite(b, v)
      PROVE  TypeInv'
  <2> DEFINE c == [at |-> "AcceptCommit", invite |-> v]
  <2>1. c \in Call /\ invite[c.invite] # None /\ c.at = "AcceptCommit"
    BY <1>1, CallsMade DEF AcceptInvite
  <2>2. Goes(b, c) /\ UNCHANGED rows /\ session' = session
    BY <1>1 DEF AcceptInvite
  <2>3. QED
    BY <1>0, <2>1, <2>2, RowsRest
<1>2. ASSUME NEW e \in Emails, CreateInvite(b, e)
      PROVE  TypeInv'
  <2> DEFINE row == [email |-> e, barbershopId |-> session[b].barbershopId,
                     consumed |-> FALSE, by |-> session[b]]
  <2>1. session[b] \in Session /\ session[b].barbershopId \in Shops
    BY <1>2, SessionShape DEF CreateInvite, guardAdmin, TypeInv, Session
  <2>2. row \in Invite
    BY <2>1 DEF Invite
  <2>3. PICK v \in InviteIds : invite[v] = None /\ invite' = [invite EXCEPT ![v] = row]
    BY <1>2 DEF CreateInvite
  <2>4. UNCHANGED <<user, barber, appt, session, call>>
    BY <1>2 DEF CreateInvite
  <2> HIDE DEF row
  <2>5. AccountsTypeOK'
    BY <2>2, <2>3, <2>4 DEF TypeInv, AccountsTypeOK
  <2>6. \A x \in InviteIds : invite[x] # None => invite'[x] = invite[x]
    BY <2>3 DEF TypeInv, AccountsTypeOK
  <2>7. ASSUME NEW x \in Browsers
        PROVE  NamesRows(x)'
    <3>1. call[x] \in Call /\ NamesRows(x)
      BY DEF TypeInv, AccountsTypeOK, CallsNameRows
    <3>2. QED
      BY <2>4, <2>6, <3>1, CallShape DEF NamesRows, SameOwner
  <2>8. QED
    BY <2>4, <2>5, <2>7 DEF TypeInv, CallsNameRows, OneAccountPerAddress
<1>3. CASE AcceptCommit(b)
  <2> DEFINE v == call[b].invite
  <2>1. v \in InviteIds /\ invite[v] # None /\ invite[v] \in Invite
    BY <1>0, <1>3, CallShape, InviteShape DEF AcceptCommit, TypeInv, CallsNameRows, NamesRows
  <2>2. Goes(b, NoCall) /\ NoCall \in Call /\ NoCall.at = "none" /\ UNCHANGED <<appt, session>>
    BY <1>3, CallsMade DEF AcceptCommit, Ends, NoCall
  <2>3. CASE UniqueEmail(invite[v].email)
    <3> DEFINE row == NewBarber(v)
    <3>1. /\ row \in Account /\ row.email = invite[v].email
          /\ row.address = invite[v].email
      BY <2>1, NewBarberFields
    <3>2. PICK i \in UserIds : /\ Fresh(i)
                              /\ user' = [user EXCEPT ![i] = row]
                              /\ barber' = [barber EXCEPT ![i] = invite[v].barbershopId]
      BY <1>3, <2>3 DEF AcceptCommit
    <3>3. Consumes(v)
      BY <1>3, <2>3 DEF AcceptCommit
    <3>4. barber' \in [UserIds -> Shops \cup {None}]
      BY <2>1, <3>2, InviteFields DEF TypeInv, AccountsTypeOK
    <3>5. [invite[v] EXCEPT !.consumed = TRUE] \in Invite
      BY <2>1 DEF Invite
    <3>6. /\ invite' \in [InviteIds -> Invite \cup {None}]
          /\ \A x \in InviteIds : invite[x] # None => invite'[x] # None
      BY <2>1, <3>3, <3>5, InviteFields DEF Consumes, TypeInv, AccountsTypeOK
    <3> HIDE DEF row, v
    <3>7. user[i] = None /\ UniqueEmail(row.email)
      BY <2>3, <3>1, <3>2 DEF Fresh
    <3>8. QED
      BY <1>0, <2>2, <3>1, <3>2, <3>4, <3>6, <3>7, AccountAdded
  <2>4. CASE ~ UniqueEmail(invite[v].email)
    BY <1>0, <1>3, <2>2, <2>4, RowsRest DEF AcceptCommit, rows
  <2>5. QED
    BY <2>3, <2>4
<1>4. QED
  BY <1>1, <1>2, <1>3

LEMMA AppointmentShape ==
  ASSUME AccountsTypeOK, NEW a \in ApptIds, NEW l \in SUBSET ApptIds, NEW i
  PROVE  Resolved(a, l, i) \in Appointment \cup {None}
<1>1. CASE appt[a] = None
  BY <1>1 DEF Resolved
<1>2. CASE appt[a] \in Appointment
  BY <1>2 DEF Resolved, Appointment
<1>3. QED
  BY <1>1, <1>2 DEF AccountsTypeOK

LEMMA TypeDelete ==
  ASSUME TypeInv, NEW b \in Browsers, DeleteList(b) \/ DeleteCommit(b)
  PROVE  TypeInv'
<1>0. call[b] \in Call /\ session' = session /\ session \in [Browsers -> Session \cup {None}]
  BY DEF TypeInv, AccountsTypeOK, DeleteList, DeleteCommit
<1>1. CASE DeleteList(b)
  <2> DEFINE c == [at |-> "DeleteCommit", id |-> session[b].id, listed |-> Listed(session[b].id)]
  <2>1. session[b].id \in UserIds /\ user[session[b].id] # None
    BY <1>1 DEF DeleteList, Accounted
  <2>2. Listed(session[b].id) \in SUBSET ApptIds
    BY DEF Listed
  <2>3. c \in Call /\ c.at = "DeleteCommit" /\ user[c.id] # None
    BY <2>1, <2>2, CallsMade
  <2>4. Goes(b, c) /\ UNCHANGED rows
    BY <1>1 DEF DeleteList
  <2>5. QED
    BY <1>0, <2>3, <2>4, RowsRest
<1>2. CASE DeleteCommit(b)
  <2> DEFINE i == call[b].id
  <2>1. i \in UserIds /\ call[b].listed \in SUBSET ApptIds /\ user[i] # None
    BY <1>0, <1>2, CallShape DEF DeleteCommit, TypeInv, CallsNameRows, NamesRows
  <2>2. user[i] \in Account
    BY <2>1, UserShape DEF TypeInv
  <2>3. /\ user' = [user EXCEPT ![i] = Anonymized(i)]
        /\ appt' = [a \in ApptIds |-> Resolved(a, call[b].listed, i)]
        /\ UNCHANGED <<barber, invite, session>>
        /\ call' = [call EXCEPT ![b] = NoCall]
    BY <1>2 DEF DeleteCommit, Ends, Goes
  <2> DEFINE row == Anonymized(i)
  <2>4. /\ row \in Account /\ row.email = i /\ row.address = user[i].address
        /\ row.role = user[i].role /\ row.barbershopId = user[i].barbershopId
    BY <2>1, <2>2, AnonymizedFields
  <2> HIDE DEF row, i
  <2>5. user'[i] = row /\ \A j \in UserIds \ {i} : user'[j] = user[j]
    BY <2>1, <2>3 DEF TypeInv, AccountsTypeOK, row
  <2>6. appt' \in [ApptIds -> Appointment \cup {None}]
    BY <2>1, <2>3, AppointmentShape DEF TypeInv
  <2>7. AccountsTypeOK'
    BY <2>1, <2>3, <2>4, <2>6, CallsMade DEF TypeInv, AccountsTypeOK, row
  <2>8. \A j \in UserIds : user[j] # None =>
          /\ user'[j] # None
          /\ user'[j].address = user[j].address
          /\ user'[j].role = user[j].role
          /\ user'[j].barbershopId = user[j].barbershopId
    BY <2>1, <2>4, <2>5, AccountFields
  <2>9. ASSUME NEW x \in Browsers
        PROVE  NamesRows(x)'
    <3>1. call[x] \in Call /\ NamesRows(x)
      BY DEF TypeInv, AccountsTypeOK, CallsNameRows
    <3>2. call'[x] = call[x] \/ call'[x].at = "none"
      BY <2>3 DEF TypeInv, AccountsTypeOK, NoCall
    <3>3. /\ call[x].at = "SignInVerify" => call[x].id \in UserIds
          /\ call[x].at = "DeleteCommit" => call[x].id \in UserIds
      BY <3>1, CallShape
    <3>4. CASE call'[x].at = "none"
      BY <3>4 DEF NamesRows
    <3>5. CASE call'[x] = call[x]
      BY <2>3, <2>8, <3>1, <3>3, <3>5 DEF NamesRows, SameOwner
    <3>6. QED
      BY <3>2, <3>4, <3>5
  <2>10. OneAccountPerAddress'
    <3>1. \A j \in UserIds \ {i} : user[j] # None => user[j].email # i
      BY <2>1, UserShape, AccountFields, AccountsAssumption
      DEF TypeInv, OneAccountPerAddress, anonymizedEmailFor
    <3>2. QED
      BY <2>1, <2>4, <2>5, <3>1 DEF TypeInv, OneAccountPerAddress, anonymizedEmailFor
  <2>11. QED
    BY <2>7, <2>9, <2>10 DEF TypeInv, CallsNameRows
<1>3. QED
  BY <1>1, <1>2

LEMMA TypeBook ==
  ASSUME TypeInv, NEW b \in Browsers, Book(b) \/ BookCommit(b)
  PROVE  TypeInv'
<1>0. call[b] \in Call /\ session' = session /\ session \in [Browsers -> Session \cup {None}]
  BY DEF TypeInv, AccountsTypeOK, Book, BookCommit
<1>1. CASE Book(b)
  <2> DEFINE c == [at |-> "BookCommit", id |-> session[b].id]
  <2>1. session[b].id \in UserIds \cup {ProfileId}
    BY <1>1, SessionShape DEF Book, guardBookingSession, TypeInv, Session
  <2>2. c \in Call /\ c.at = "BookCommit"
    BY <2>1, CallsMade
  <2>3. Goes(b, c) /\ UNCHANGED rows
    BY <1>1 DEF Book
  <2>4. QED
    BY <1>0, <2>2, <2>3, RowsRest
<1>2. CASE BookCommit(b)
  <2>1. UNCHANGED <<user, barber, invite, session>> /\ call' = [call EXCEPT ![b] = NoCall]
    BY <1>2 DEF BookCommit, Ends, Goes
  <2>2. CallsNameRows' /\ OneAccountPerAddress'
    BY <2>1, NamesKept DEF TypeInv, AccountsTypeOK
  <2>3. Accounted(call[b].id) =>
          [client |-> call[b].id, status |-> "open", mail |-> TRUE,
           late |-> Leaving(call[b].id)] \in Appointment
    <3>1. Leaving(call[b].id) \in BOOLEAN
      BY DEF Leaving, Deleted
    <3>2. QED
      BY <3>1 DEF Accounted, Appointment
  <2>4. appt' \in [ApptIds -> Appointment \cup {None}]
    BY <1>2, <2>3 DEF BookCommit, TypeInv, AccountsTypeOK
  <2>5. AccountsTypeOK'
    BY <2>1, <2>4, CallsMade DEF TypeInv, AccountsTypeOK
  <2>6. QED
    BY <2>2, <2>5 DEF TypeInv
<1>3. QED
  BY <1>1, <1>2

LEMMA TypeEnds ==
  ASSUME TypeInv,
         \/ \E b \in Browsers : CallDies(b) \/ SessionEnds(b)
         \/ \E a \in ApptIds : Starts(a)
  PROVE  TypeInv'
<1>1. ASSUME NEW b \in Browsers, CallDies(b)
      PROVE  TypeInv'
  BY <1>1, CallsMade, RowsRest DEF CallDies, Ends, NoCall, TypeInv, AccountsTypeOK
<1>2. ASSUME NEW b \in Browsers, SessionEnds(b)
      PROVE  TypeInv'
  BY <1>2, NamesKept DEF SessionEnds, TypeInv, AccountsTypeOK, rows
<1>3. ASSUME NEW a \in ApptIds, Starts(a)
      PROVE  TypeInv'
  <2>1. [appt[a] EXCEPT !.status = "past"] \in Appointment
    BY <1>3 DEF Starts, TypeInv, AccountsTypeOK, Appointment
  <2>2. QED
    BY <1>3, <2>1, NamesKept DEF Starts, TypeInv, AccountsTypeOK
<1>4. QED
  BY <1>1, <1>2, <1>3

LEMMA TypeInvNext == TypeInv /\ [Next]_vars => TypeInv'
<1> SUFFICES ASSUME TypeInv, [Next]_vars
             PROVE  TypeInv'
  OBVIOUS
<1>1. CASE UNCHANGED vars
  BY <1>1, NamesKept DEF vars, TypeInv, AccountsTypeOK
<1>2. CASE Next
  BY <1>2, TypeRegister, TypeSignIn, TypeGoogle, TypeInvites, TypeDelete, TypeBook, TypeEnds
  DEF Next
<1>3. QED
  BY <1>1, <1>2

LEMMA AccountsTypeInv == Spec => []TypeInv
BY TypeInvInit, TypeInvNext, PTL DEF Spec

\* The tables, the sessions and the requests under way have their types, for any
\* number of browsers, addresses, shops and invites.
THEOREM AccountsTyped == Spec => []AccountsTypeOK
<1>1. TypeInv => AccountsTypeOK
  BY DEF TypeInv
<1>2. QED
  BY <1>1, AccountsTypeInv, PTL

\* Whatever registrations, Google sign-ins and acceptances race for it, an
\* address has at most one account, and a deleted account keeps none
\* (register.ts 65-69, oauth.ts 52-69, invites.ts 181-184).
THEOREM AccountsOnePerAddress == Spec => []OneAccountPerAddress
<1>1. TypeInv => OneAccountPerAddress
  BY DEF TypeInv
<1>2. QED
  BY <1>1, AccountsTypeInv, PTL

-----------------------------------------------------------------------------
(* What a step does to accounts and invites.                                 *)

ClientJoins ==
  \E i \in UserIds, e \in Emails, h \in BOOLEAN :
    /\ Fresh(i) /\ UniqueEmail(e)
    /\ user' = [user EXCEPT ![i] = NewClient(e, h)]
    /\ UNCHANGED <<barber, invite, appt>>

BarberJoins(b) ==
  /\ call[b].at = "AcceptCommit"
  /\ UniqueEmail(invite[call[b].invite].email)
  /\ \E i \in UserIds :
       /\ Fresh(i)
       /\ user' = [user EXCEPT ![i] = NewBarber(call[b].invite)]
       /\ barber' = [barber EXCEPT ![i] = invite[call[b].invite].barbershopId]
  /\ Consumes(call[b].invite)
  /\ UNCHANGED appt

LEMMA RowsStep ==
  ASSUME TypeInv, [Next]_vars
  PROVE  \/ UNCHANGED <<user, barber, invite>>
         \/ ClientJoins
         \/ \E b \in Browsers : BarberJoins(b) \/ DeleteCommit(b)
         \/ \E b \in Browsers, e \in Emails : CreateInvite(b, e)
<1>1. ASSUME NEW b \in Browsers, RegisterCreate(b)
      PROVE  ClientJoins \/ UNCHANGED <<user, barber, invite>>
  <2>1. call[b].email \in Emails
    BY <1>1, CallShape DEF RegisterCreate, TypeInv, AccountsTypeOK
  <2>2. QED
    BY <1>1, <2>1 DEF RegisterCreate, ClientJoins
<1>2. ASSUME NEW b \in Browsers, GoogleCreate(b)
      PROVE  ClientJoins \/ UNCHANGED <<user, barber, invite>>
  <2>1. call[b].email \in Emails
    BY <1>2, CallShape DEF GoogleCreate, TypeInv, AccountsTypeOK
  <2>2. QED
    BY <1>2, <2>1 DEF GoogleCreate, ClientJoins
<1>3. ASSUME NEW b \in Browsers, AcceptCommit(b)
      PROVE  BarberJoins(b) \/ UNCHANGED <<user, barber, invite>>
  BY <1>3 DEF AcceptCommit, BarberJoins
<1>4. CASE UNCHANGED vars
  BY <1>4 DEF vars
<1>5. CASE Next
  BY <1>1, <1>2, <1>3, <1>5, ZenonT(60)
  DEF Next, RegisterLook, SignInFind, SignInVerify, GoogleFind, GoogleRefind,
      SessionEnds, AcceptInvite, Book, BookCommit, Starts, DeleteList, CallDies, rows
<1>6. QED
  BY <1>4, <1>5

\* Rows are never removed, and what an account was made with never changes.
SameAccount(i) ==
  /\ user'[i] # None
  /\ user'[i].address = user[i].address
  /\ user'[i].role = user[i].role
  /\ user'[i].barbershopId = user[i].barbershopId
  /\ user'[i].invite = user[i].invite

LEMMA AccountsStay ==
  ASSUME TypeInv, [Next]_vars, NEW i \in UserIds, user[i] # None
  PROVE  SameAccount(i)
<1>1. ASSUME NEW b \in Browsers, DeleteCommit(b)
      PROVE  SameAccount(i)
  <2>1. call[b].id \in UserIds /\ user' = [user EXCEPT ![call[b].id] = Anonymized(call[b].id)]
    BY <1>1, CallShape DEF DeleteCommit, TypeInv, AccountsTypeOK
  <2>2. CASE i = call[b].id
    <3>1. user'[i] = Anonymized(i)
      BY <2>1, <2>2 DEF TypeInv, AccountsTypeOK
    <3>2. QED
      BY <3>1, UserShape, AnonymizedFields, AccountFields DEF TypeInv, SameAccount
  <2>3. CASE i # call[b].id
    BY <2>1, <2>3 DEF TypeInv, AccountsTypeOK, SameAccount
  <2>4. QED
    BY <2>2, <2>3
<1>2. CASE UNCHANGED user
  BY <1>2 DEF SameAccount
<1>3. CASE ClientJoins \/ \E b \in Browsers : BarberJoins(b)
  <2>1. user'[i] = user[i]
    BY <1>3 DEF ClientJoins, BarberJoins, Fresh, TypeInv, AccountsTypeOK
  <2>2. QED
    BY <2>1 DEF SameAccount
<1>4. QED
  BY <1>1, <1>2, <1>3, RowsStep DEF CreateInvite

-----------------------------------------------------------------------------
(* Sessions.                                                                 *)

SpeaksForNext(s, i) ==
  /\ user'[i] # None
  /\ s.email = user'[i].address
  /\ s.role = user'[i].role
  /\ s.barbershopId = user'[i].barbershopId

LEMMA StillSpeaksFor ==
  ASSUME TypeInv, [Next]_vars, NEW s, NEW i \in UserIds, SpeaksFor(s, i)
  PROVE  SpeaksForNext(s, i)
BY AccountsStay DEF SpeaksFor, SpeaksForNext, SameAccount

\* A session that is opened in this step.
Opened(s) ==
  /\ \E i \in UserIds : SpeaksForNext(s, i)
  /\ s.id \in UserIds => SpeaksForNext(s, s.id)

LEMMA GoogleSessionSpeaks ==
  ASSUME TypeInv, [Next]_vars, NEW e \in Emails, NEW i \in UserIds,
         Holds(i, e) \/ user'[i] = NewClient(e, FALSE),
         NEW row, row = IF Holds(i, e) THEN user[i] ELSE NewClient(e, FALSE)
  PROVE  Opened(GoogleSession(e, row))
<1>1. /\ GoogleSession(e, row).id = ProfileId
      /\ GoogleSession(e, row).email = e
      /\ GoogleSession(e, row).role = row.role
      /\ GoogleSession(e, row).barbershopId = row.barbershopId
  BY DEF GoogleSession
<1>2. CASE Holds(i, e)
  <2>1. SpeaksFor(GoogleSession(e, row), i)
    BY <1>1, <1>2, HolderWasMadeSo DEF SpeaksFor, Holds
  <2>2. QED
    BY <1>1, <2>1, StillSpeaksFor, AccountsAssumption DEF Opened
<1>3. CASE ~ Holds(i, e)
  <2>1. SpeaksForNext(GoogleSession(e, row), i)
    BY <1>1, <1>3, NewClientFields, AccountFields, ZenonT(60) DEF SpeaksForNext
  <2>2. QED
    BY <1>1, <2>1, AccountsAssumption DEF Opened
<1>4. QED
  BY <1>2, <1>3

LEMMA SessionStep ==
  ASSUME TypeInv, [Next]_vars, NEW b \in Browsers, session'[b] # None
  PROVE  session'[b] = session[b] \/ Opened(session'[b])
<1>0. session \in [Browsers -> Session \cup {None}] /\ call[b] \in Call
  BY DEF TypeInv, AccountsTypeOK
<1>1. CASE SignInVerify(b)
  <2> DEFINE i == call[b].id
  <2>1. i \in UserIds /\ SameOwner(call[b].row, i) /\ UNCHANGED rows
    BY <1>0, <1>1, CallShape DEF SignInVerify, TypeInv, CallsNameRows, NamesRows
  <2>2. SpeaksForNext(toSessionUser(i, call[b].row), i)
    BY <2>1 DEF SpeaksForNext, SameOwner, toSessionUser, rows
  <2>3. toSessionUser(i, call[b].row).id = i
    BY DEF toSessionUser
  <2>4. Opened(toSessionUser(i, call[b].row))
    BY <2>1, <2>2, <2>3 DEF Opened
  <2>5. QED
    BY <1>0, <1>1, <2>4 DEF SignInVerify
<1>2. ASSUME NEW e \in Emails, GoogleFind(b, e)
      PROVE  session'[b] = session[b] \/ Opened(session'[b])
  BY <1>0, <1>2, GoogleSessionSpeaks DEF GoogleFind, StartsGoogleSession
<1>3. CASE GoogleRefind(b)
  <2>1. call[b].email \in Emails
    BY <1>0, <1>3, CallShape DEF GoogleRefind
  <2>2. QED
    BY <1>0, <1>3, <2>1, GoogleSessionSpeaks, ZenonT(60) DEF GoogleRefind, StartsGoogleSession
<1>4. CASE GoogleCreate(b)
  <2>1. call[b].email \in Emails
    BY <1>0, <1>4, CallShape DEF GoogleCreate
  <2>2. CASE UniqueEmail(call[b].email)
    <3> DEFINE row == NewClient(call[b].email, FALSE)
    <3>1. PICK i \in UserIds : user' = [user EXCEPT ![i] = row]
      BY <1>4, <2>2 DEF GoogleCreate
    <3>2. user'[i] = NewClient(call[b].email, FALSE) /\ ~ Holds(i, call[b].email)
      BY <2>2, <3>1 DEF TypeInv, AccountsTypeOK, UniqueEmail, Taken
    <3>3. session'[b] = GoogleSession(call[b].email, row)
      BY <1>0, <1>4, <2>2 DEF GoogleCreate, StartsGoogleSession
    <3>4. Opened(GoogleSession(call[b].email, row))
      BY <2>1, <3>2, GoogleSessionSpeaks
    <3>5. QED
      BY <3>3, <3>4
  <2>3. QED
    BY <1>4, <2>2 DEF GoogleCreate
<1>5. ASSUME NEW x \in Browsers, x # b, \/ SignInVerify(x) \/ GoogleCreate(x) \/ GoogleRefind(x)
                                       \/ \E e \in Emails : GoogleFind(x, e)
      PROVE  session'[b] = session[b]
  BY <1>0, <1>5 DEF SignInVerify, GoogleCreate, GoogleRefind, GoogleFind, StartsGoogleSession
<1>6. ASSUME NEW x \in Browsers, SessionEnds(x)
      PROVE  session'[b] = session[b]
  BY <1>0, <1>6 DEF SessionEnds
<1>7. CASE session' = session
  BY <1>7
<1>8. QED
  BY <1>1, <1>2, <1>3, <1>4, <1>5, <1>6, <1>7
  DEF Next, vars, RegisterLook, RegisterCreate, SignInFind, CreateInvite, AcceptInvite,
      AcceptCommit, Book, BookCommit, Starts, DeleteList, DeleteCommit, CallDies

\* A session speaks, in every reachable state, for an account that was made with
\* the address it was opened for, with that account's role and tenant
\* (oauth.ts 7-8 and 66-69, credentials.ts 26-41, auth.config.ts 50-70).
THEOREM AccountsSessionsMatch == Spec => []SessionMatchesAccount
<1>1. Init => SessionMatchesAccount
  BY DEF Init, SessionMatchesAccount
<1>2. TypeInv /\ SessionMatchesAccount /\ [Next]_vars => SessionMatchesAccount'
  <2> SUFFICES ASSUME TypeInv, SessionMatchesAccount, [Next]_vars,
                      NEW b \in Browsers, session'[b] # None
               PROVE  Opened(session'[b])
    BY DEF SessionMatchesAccount, Opened, SpeaksFor, SpeaksForNext
  <2>1. CASE session'[b] = session[b]
    BY <2>1, StillSpeaksFor DEF SessionMatchesAccount, Opened
  <2>2. QED
    BY <2>1, SessionStep
<1>3. QED
  BY <1>1, <1>2, AccountsTypeInv, PTL DEF Spec

-----------------------------------------------------------------------------
(* Staff.  Of StaffComeFromInvites, one part for each table it starts from,   *)
(* and what the tables must say besides to keep it.                           *)

ProfileIsBacked(i) ==
  /\ (user[i] # None /\ user[i].role # "client") <=> barber[i] # None
  /\ barber[i] # None =>
       /\ user[i].invite # None
       /\ LET v == invite[user[i].invite] IN
          /\ v # None
          /\ v.consumed
          /\ v.by.role = "barbershop_admin"
          /\ barber[i] = v.barbershopId
          /\ barber[i] = v.by.barbershopId
          /\ barber[i] = user[i].barbershopId

UsedHasAccount(v) ==
  invite[v] # None /\ invite[v].consumed =>
    \E i \in UserIds : user[i] # None /\ user[i].invite = v

OnePerInvite ==
  \A i, j \in UserIds :
    /\ user[i] # None /\ user[j] # None
    /\ ~Deleted(i) /\ ~Deleted(j)
    /\ user[i].invite # None /\ user[i].invite = user[j].invite
    => i = j

SeedsStay ==
  \A i \in UserIds :
    /\ i \in DOMAIN Seeds => user[i] # None
    /\ user[i] = None => barber[i] = None

MadeByAdmin(v) ==
  invite[v] # None =>
    /\ invite[v].by.role = "barbershop_admin"
    /\ invite[v].by.barbershopId = invite[v].barbershopId

MadeFor(i) ==
  user[i] # None /\ user[i].invite # None =>
    /\ invite[user[i].invite] # None
    /\ user[i].address = invite[user[i].invite].email

StaffInv ==
  /\ \A i \in UserIds \ DOMAIN Seeds : ProfileIsBacked(i)
  /\ \A v \in InviteIds : UsedHasAccount(v) /\ MadeByAdmin(v)
  /\ \A i \in UserIds : MadeFor(i)
  /\ OnePerInvite
  /\ SeedsStay

LEMMA StaffInvImplies == StaffInv => StaffComeFromInvites
BY DEF StaffInv, StaffComeFromInvites, ProfileIsBacked, UsedHasAccount, OnePerInvite

LEMMA StaffInit == Init => StaffInv
<1> SUFFICES ASSUME Init
             PROVE  StaffInv
  OBVIOUS
<1>1. \A i \in UserIds : user[i] = IF i \in DOMAIN Seeds THEN Seeds[i] ELSE None
  BY DEF Init
<1>2. \A i \in DOMAIN Seeds : Seeds[i] # None /\ Seeds[i].invite = None
  BY AccountsAssumption, AccountFields
<1>3. \A i \in UserIds \ DOMAIN Seeds : barber[i] = None
  BY DEF Init
<1>4. \A v \in InviteIds : invite[v] = None
  BY DEF Init
<1>5. QED
  BY <1>1, <1>2, <1>3, <1>4
  DEF StaffInv, ProfileIsBacked, UsedHasAccount, MadeByAdmin, MadeFor, OnePerInvite, SeedsStay

LEMMA StaffClientJoins ==
  ASSUME TypeInv, StaffInv, ClientJoins
  PROVE  StaffInv'
<1>1. PICK i \in UserIds, e \in Emails, h \in BOOLEAN :
        /\ user[i] = None
        /\ user' = [user EXCEPT ![i] = NewClient(e, h)]
        /\ UNCHANGED <<barber, invite>>
  BY DEF ClientJoins, Fresh
<1> DEFINE row == NewClient(e, h)
<1>2. row # None /\ row.role = "client" /\ row.invite = None
  BY NewClientFields, AccountFields
<1> HIDE DEF row
<1>3. user'[i] = row /\ \A j \in UserIds \ {i} : user'[j] = user[j]
  BY <1>1 DEF TypeInv, AccountsTypeOK, row
<1>4. barber[i] = None
  BY <1>1 DEF StaffInv, SeedsStay
<1>5. \A j \in UserIds \ DOMAIN Seeds : ProfileIsBacked(j)'
  BY <1>1, <1>2, <1>3, <1>4 DEF StaffInv, ProfileIsBacked
<1>6. \A v \in InviteIds : UsedHasAccount(v)' /\ MadeByAdmin(v)'
  BY <1>1, <1>2, <1>3 DEF StaffInv, UsedHasAccount, MadeByAdmin
<1>7. \A j \in UserIds : MadeFor(j)'
  BY <1>1, <1>2, <1>3 DEF StaffInv, MadeFor
<1>8. OnePerInvite' /\ SeedsStay'
  BY <1>1, <1>2, <1>3 DEF StaffInv, OnePerInvite, SeedsStay, Deleted
<1>9. QED
  BY <1>5, <1>6, <1>7, <1>8 DEF StaffInv

LEMMA StaffBarberJoins ==
  ASSUME TypeInv, StaffInv, NEW b \in Browsers, BarberJoins(b)
  PROVE  StaffInv'
<1> DEFINE v == call[b].invite
<1>1. v \in InviteIds /\ invite[v] # None /\ invite[v] \in Invite
  BY CallShape, InviteShape DEF BarberJoins, TypeInv, AccountsTypeOK, CallsNameRows, NamesRows
<1> DEFINE row == NewBarber(v)
<1>2. PICK i \in UserIds : /\ user[i] = None
                          /\ user' = [user EXCEPT ![i] = row]
                          /\ barber' = [barber EXCEPT ![i] = invite[v].barbershopId]
  BY DEF BarberJoins, Fresh
<1>3. /\ row \in Account /\ row # None
      /\ row.role = "barber" /\ row.invite = v
      /\ row.barbershopId = invite[v].barbershopId
      /\ row.address = invite[v].email /\ row.email = invite[v].email
  BY <1>1, NewBarberFields, AccountFields
<1>4. UniqueEmail(invite[v].email) /\ Consumes(v)
  BY DEF BarberJoins
<1> HIDE DEF row, v
<1>5. user'[i] = row /\ \A j \in UserIds \ {i} : user'[j] = user[j]
  BY <1>2 DEF TypeInv, AccountsTypeOK
<1>6. /\ barber'[i] = invite[v].barbershopId /\ barber'[i] # None
      /\ \A j \in UserIds \ {i} : barber'[j] = barber[j]
  BY <1>1, <1>2, InviteFields, AccountsAssumption DEF TypeInv, AccountsTypeOK
<1>7. /\ invite'[v] = [invite[v] EXCEPT !.consumed = TRUE]
      /\ \A x \in InviteIds \ {v} : invite'[x] = invite[x]
  BY <1>1, <1>4 DEF Consumes, TypeInv, AccountsTypeOK
<1>8. /\ invite'[v] # None /\ invite'[v].consumed
      /\ invite'[v].by = invite[v].by
      /\ invite'[v].barbershopId = invite[v].barbershopId
      /\ invite'[v].email = invite[v].email
  <2>1. [invite[v] EXCEPT !.consumed = TRUE] \in Invite
    BY <1>1 DEF Invite
  <2>2. QED
    BY <1>1, <1>7, <2>1, InviteFields DEF Invite
<1>9. v # None
  BY <1>1, AccountsAssumption
<1>10. \A x \in UserIds \ DOMAIN Seeds : ProfileIsBacked(x)'
  <2> SUFFICES ASSUME NEW x \in UserIds \ DOMAIN Seeds
               PROVE  ProfileIsBacked(x)'
    OBVIOUS
  <2>1. CASE x = i
    <3>1. MadeByAdmin(v)
      BY <1>1 DEF StaffInv
    <3>2. QED
      BY <1>1, <1>3, <1>5, <1>6, <1>8, <1>9, <2>1, <3>1 DEF ProfileIsBacked, MadeByAdmin
  <2>2. CASE x # i
    <3>1. ProfileIsBacked(x) /\ user'[x] = user[x] /\ barber'[x] = barber[x]
      BY <1>5, <1>6, <2>2 DEF StaffInv
    <3>2. CASE barber[x] = None
      BY <3>1, <3>2 DEF ProfileIsBacked
    <3>3. CASE barber[x] # None
      <4>1. user[x] \in Account /\ user[x].invite \in InviteIds
        BY <3>1, <3>3, UserShape, AccountFields DEF ProfileIsBacked, TypeInv
      <4>2. CASE user[x].invite = v
        BY <1>8, <3>1, <3>3, <4>2 DEF ProfileIsBacked
      <4>3. CASE user[x].invite # v
        BY <1>7, <3>1, <3>3, <4>1, <4>3 DEF ProfileIsBacked
      <4>4. QED
        BY <4>2, <4>3
    <3>4. QED
      BY <3>2, <3>3
  <2>3. QED
    BY <2>1, <2>2
<1>11. \A x \in InviteIds : UsedHasAccount(x)'
  <2> SUFFICES ASSUME NEW x \in InviteIds, invite'[x] # None, invite'[x].consumed
               PROVE  \E j \in UserIds : user'[j] # None /\ user'[j].invite = x
    BY DEF UsedHasAccount
  <2>1. CASE x = v
    BY <1>3, <1>5, <2>1
  <2>2. CASE x # v
    <3>1. PICK j \in UserIds : user[j] # None /\ user[j].invite = x
      BY <1>7, <2>2 DEF StaffInv, UsedHasAccount
    <3>2. QED
      BY <1>2, <1>5, <3>1
  <2>3. QED
    BY <2>1, <2>2
<1>12. \A x \in InviteIds : MadeByAdmin(x)'
  <2> SUFFICES ASSUME NEW x \in InviteIds
               PROVE  MadeByAdmin(x)'
    OBVIOUS
  <2>1. MadeByAdmin(x)
    BY DEF StaffInv
  <2>2. CASE x = v
    BY <1>1, <1>8, <2>1, <2>2 DEF MadeByAdmin
  <2>3. CASE x # v
    BY <1>7, <2>1, <2>3 DEF MadeByAdmin
  <2>4. QED
    BY <2>2, <2>3
<1>13. \A x \in UserIds : MadeFor(x)'
  <2> SUFFICES ASSUME NEW x \in UserIds
               PROVE  MadeFor(x)'
    OBVIOUS
  <2>1. CASE x = i
    BY <1>3, <1>5, <1>8, <2>1 DEF MadeFor
  <2>2. CASE x # i
    <3>1. MadeFor(x) /\ user'[x] = user[x]
      BY <1>5, <2>2 DEF StaffInv
    <3>2. CASE user[x] = None \/ user[x].invite = None
      BY <3>1, <3>2 DEF MadeFor
    <3>3. CASE user[x] # None /\ user[x].invite = v
      BY <1>8, <1>9, <3>1, <3>3 DEF MadeFor
    <3>4. CASE user[x] # None /\ user[x].invite \notin {v, None}
      <4>1. user[x].invite \in InviteIds
        BY <3>4, UserShape, AccountFields DEF TypeInv
      <4>2. QED
        BY <1>7, <3>1, <3>4, <4>1 DEF MadeFor
    <3>5. QED
      BY <3>2, <3>3, <3>4
  <2>3. QED
    BY <2>1, <2>2
<1>14. OnePerInvite'
  <2>1. ASSUME NEW j \in UserIds, user[j] # None, user[j].invite = v
        PROVE  Deleted(j)
    <3>1. user[j].address = invite[v].email
      BY <1>9, <2>1 DEF StaffInv, MadeFor
    <3>2. user[j].email # invite[v].email
      BY <1>4, <2>1 DEF UniqueEmail, Taken, Holds
    <3>3. QED
      BY <2>1, <3>1, <3>2 DEF TypeInv, OneAccountPerAddress, Deleted
  <2>2. \A j \in UserIds \ {i} : Deleted(j)' <=> Deleted(j)
    BY <1>5 DEF Deleted, anonymizedEmailFor
  <2>3. QED
    BY <1>3, <1>5, <2>1, <2>2 DEF StaffInv, OnePerInvite
<1>15. SeedsStay'
  BY <1>3, <1>5, <1>6 DEF StaffInv, SeedsStay
<1>16. QED
  BY <1>10, <1>11, <1>12, <1>13, <1>14, <1>15 DEF StaffInv

LEMMA StaffDelete ==
  ASSUME TypeInv, StaffInv, NEW b \in Browsers, DeleteCommit(b)
  PROVE  StaffInv'
<1>1. PICK i \in UserIds : i = call[b].id /\ user[i] # None
  BY CallShape DEF DeleteCommit, TypeInv, AccountsTypeOK, CallsNameRows, NamesRows
<1> DEFINE row == Anonymized(i)
<1>2. user' = [user EXCEPT ![i] = row] /\ UNCHANGED <<barber, invite>>
  BY <1>1 DEF DeleteCommit
<1>3. /\ row # None /\ row.email = i /\ row.address = user[i].address
      /\ row.role = user[i].role /\ row.invite = user[i].invite
      /\ row.barbershopId = user[i].barbershopId
  BY <1>1, UserShape, AnonymizedFields, AccountFields DEF TypeInv
<1> HIDE DEF row
<1>4. user'[i] = row /\ \A j \in UserIds \ {i} : user'[j] = user[j]
  BY <1>1, <1>2 DEF TypeInv, AccountsTypeOK
<1>5. \A j \in UserIds \ DOMAIN Seeds : ProfileIsBacked(j)'
  <2> SUFFICES ASSUME NEW j \in UserIds \ DOMAIN Seeds
               PROVE  ProfileIsBacked(j)'
    OBVIOUS
  <2>1. ProfileIsBacked(j)
    BY DEF StaffInv
  <2>2. CASE j = i
    BY <1>1, <1>2, <1>3, <1>4, <2>1, <2>2, SMTT(60) DEF ProfileIsBacked
  <2>3. CASE j # i
    BY <1>2, <1>4, <2>1, <2>3 DEF ProfileIsBacked
  <2>4. QED
    BY <2>2, <2>3
<1>6. \A v \in InviteIds : UsedHasAccount(v)' /\ MadeByAdmin(v)'
  BY <1>2, <1>3, <1>4 DEF StaffInv, UsedHasAccount, MadeByAdmin
<1>7. \A j \in UserIds : MadeFor(j)'
  BY <1>1, <1>2, <1>3, <1>4 DEF StaffInv, MadeFor
<1>8. OnePerInvite'
  <2>1. Deleted(i)'
    BY <1>3, <1>4 DEF Deleted, anonymizedEmailFor
  <2>2. \A j \in UserIds \ {i} : Deleted(j)' <=> Deleted(j)
    BY <1>4 DEF Deleted, anonymizedEmailFor
  <2>3. QED
    BY <1>4, <2>1, <2>2 DEF StaffInv, OnePerInvite
<1>9. SeedsStay'
  BY <1>1, <1>2, <1>3, <1>4 DEF StaffInv, SeedsStay
<1>10. QED
  BY <1>5, <1>6, <1>7, <1>8, <1>9 DEF StaffInv

LEMMA StaffInvited ==
  ASSUME TypeInv, StaffInv, NEW b \in Browsers, NEW e \in Emails, CreateInvite(b, e)
  PROVE  StaffInv'
<1> DEFINE row == [email |-> e, barbershopId |-> session[b].barbershopId,
                   consumed |-> FALSE, by |-> session[b]]
<1>1. session[b].role = "barbershop_admin"
  BY DEF CreateInvite, guardAdmin
<1>2. PICK v \in InviteIds : invite[v] = None /\ invite' = [invite EXCEPT ![v] = row]
  BY DEF CreateInvite
<1>3. UNCHANGED <<user, barber>>
  BY DEF CreateInvite
<1>4. invite'[v] = row /\ \A x \in InviteIds \ {v} : invite'[x] = invite[x]
  BY <1>2 DEF TypeInv, AccountsTypeOK
<1>5. \A x \in InviteIds : invite[x] # None => invite'[x] = invite[x]
  BY <1>2, <1>4
<1>6. \A j \in UserIds : user[j] # None => user[j].invite \in InviteIds \cup {None}
  BY UserShape, AccountFields DEF TypeInv
<1>7. \A j \in UserIds \ DOMAIN Seeds : ProfileIsBacked(j)'
  <2> SUFFICES ASSUME NEW j \in UserIds \ DOMAIN Seeds
               PROVE  ProfileIsBacked(j)'
    OBVIOUS
  <2>1. ProfileIsBacked(j)
    BY DEF StaffInv
  <2>2. CASE barber[j] = None
    BY <1>3, <2>1, <2>2 DEF ProfileIsBacked
  <2>3. CASE barber[j] # None
    <3>1. user[j].invite \in InviteIds
      BY <1>6, <2>1, <2>3 DEF ProfileIsBacked
    <3>2. invite'[user[j].invite] = invite[user[j].invite]
      BY <1>5, <2>1, <2>3, <3>1 DEF ProfileIsBacked
    <3>3. QED
      BY <1>3, <2>1, <2>3, <3>2 DEF ProfileIsBacked
  <2>4. QED
    BY <2>2, <2>3
<1>8. \A x \in InviteIds : UsedHasAccount(x)' /\ MadeByAdmin(x)'
  BY <1>1, <1>3, <1>4 DEF StaffInv, UsedHasAccount, MadeByAdmin
<1>9. \A j \in UserIds : MadeFor(j)'
  BY <1>3, <1>5, <1>6 DEF StaffInv, MadeFor
<1>10. OnePerInvite' /\ SeedsStay'
  BY <1>3 DEF StaffInv, OnePerInvite, SeedsStay, Deleted
<1>11. QED
  BY <1>7, <1>8, <1>9, <1>10 DEF StaffInv

LEMMA StaffNext == TypeInv /\ StaffInv /\ [Next]_vars => StaffInv'
<1> SUFFICES ASSUME TypeInv, StaffInv, [Next]_vars
             PROVE  StaffInv'
  OBVIOUS
<1>1. CASE UNCHANGED <<user, barber, invite>>
  BY <1>1 DEF StaffInv, ProfileIsBacked, UsedHasAccount, MadeByAdmin, MadeFor,
              OnePerInvite, SeedsStay, Deleted
<1>2. QED
  BY <1>1, RowsStep, StaffClientJoins, StaffBarberJoins, StaffDelete, StaffInvited

\* Every barber that was not seeded came by an invite of an admin of the same
\* shop, and however many acceptances of one invite race, at most one account
\* of it is not deleted (invites.ts 174-199).
THEOREM AccountsStaffInvited == Spec => []StaffComeFromInvites
BY StaffInit, StaffNext, StaffInvImplies, AccountsTypeInv, PTL DEF Spec

-----------------------------------------------------------------------------
(* Deletion.                                                                 *)

BookedInTime(a, i) == appt[a] # None /\ appt[a].client = i /\ ~appt[a].late

Forgotten(i) ==
  /\ ~user[i].passwordHash
  /\ ~user[i].consent
  /\ \A a \in ApptIds : BookedInTime(a, i) => appt[a].status # "open" /\ ~appt[a].mail

\* A deletion under way has listed all that was booked before it.
ListIsComplete(b) ==
  call[b].at = "DeleteCommit" =>
    \A a \in ApptIds : BookedInTime(a, call[b].id) => a \in call[b].listed

DeletionInv ==
  /\ \A i \in UserIds : Deleted(i) => Forgotten(i)
  /\ \A b \in Browsers : ListIsComplete(b)

LEMMA DeletionInit == Init => DeletionInv
<1> SUFFICES ASSUME Init
             PROVE  DeletionInv
  OBVIOUS
<1>1. \A i \in UserIds : ~ Deleted(i)
  BY AccountsAssumption, AccountFields DEF Init, Deleted, anonymizedEmailFor
<1>2. QED
  BY <1>1 DEF Init, DeletionInv, ListIsComplete, NoCall

\* Accounts that are not deleted in a step stay as deleted as they were.
LEMMA DeletedOnlyByDeletion ==
  ASSUME TypeInv, [Next]_vars, \A b \in Browsers : ~ DeleteCommit(b),
         NEW i \in UserIds, Deleted(i)'
  PROVE  Deleted(i) /\ user'[i] = user[i]
<1>1. CASE UNCHANGED user
  BY <1>1 DEF Deleted, anonymizedEmailFor
<1>2. CASE ClientJoins
  <2>1. PICK j \in UserIds, e \in Emails, h \in BOOLEAN :
          user' = [user EXCEPT ![j] = NewClient(e, h)]
    BY <1>2 DEF ClientJoins
  <2>2. NewClient(e, h).email \notin UserIds
    BY NewClientFields, AccountsAssumption
  <2>3. QED
    BY <2>1, <2>2 DEF Deleted, anonymizedEmailFor, TypeInv, AccountsTypeOK
<1>3. ASSUME NEW b \in Browsers, BarberJoins(b)
      PROVE  Deleted(i) /\ user'[i] = user[i]
  <2>1. PICK v \in InviteIds : v = call[b].invite /\ invite[v] \in Invite
    BY <1>3, CallShape, InviteShape
    DEF BarberJoins, TypeInv, AccountsTypeOK, CallsNameRows, NamesRows
  <2>2. PICK j \in UserIds : user' = [user EXCEPT ![j] = NewBarber(v)]
    BY <1>3, <2>1 DEF BarberJoins
  <2>3. NewBarber(v).email \notin UserIds
    BY <2>1, NewBarberFields, InviteFields, AccountsAssumption
  <2>4. QED
    BY <2>2, <2>3 DEF Deleted, anonymizedEmailFor, TypeInv, AccountsTypeOK
<1>4. QED
  BY <1>1, <1>2, <1>3, RowsStep DEF CreateInvite

\* Appointments of i that were booked in time stay what they were, or start.
NothingNewFor(i) ==
  \A a \in ApptIds : BookedInTime(a, i)' =>
    /\ BookedInTime(a, i)
    /\ appt'[a].status \in {appt[a].status, "past"}
    /\ appt'[a].mail = appt[a].mail

LEMMA ForgottenStays ==
  ASSUME TypeInv, DeletionInv, [Next]_vars, \A b \in Browsers : ~ DeleteCommit(b),
         NEW i \in UserIds, Deleted(i)', Deleted(i) => NothingNewFor(i)
  PROVE  Forgotten(i)'
BY DeletedOnlyByDeletion DEF DeletionInv, Forgotten, NothingNewFor

LEMMA ListStaysComplete ==
  ASSUME DeletionInv, NEW b \in Browsers, call'[b] = call[b],
         call[b].at = "DeleteCommit" => NothingNewFor(call[b].id)
  PROVE  ListIsComplete(b)'
<1>1. ListIsComplete(b)
  BY DEF DeletionInv
<1>2. \A i : i = call[b].id => \A a \in ApptIds : BookedInTime(a, call[b].id)' <=> BookedInTime(a, i)'
  BY DEF BookedInTime
<1>3. QED
  BY <1>1, <1>2 DEF ListIsComplete, NothingNewFor, BookedInTime

\* Steps that write no appointment and start no deletion.
LEMMA DeletionRests ==
  ASSUME TypeInv, DeletionInv, [Next]_vars, UNCHANGED appt,
         \A b \in Browsers : ~ DeleteCommit(b),
         \A b \in Browsers : call'[b] = call[b] \/ call'[b].at # "DeleteCommit"
  PROVE  DeletionInv'
<1>1. \A i : NothingNewFor(i)
  BY DEF NothingNewFor, BookedInTime
<1>2. \A i \in UserIds : Deleted(i)' => Forgotten(i)'
  BY <1>1, ForgottenStays
<1>3. ASSUME NEW b \in Browsers
      PROVE  ListIsComplete(b)'
  BY <1>1, ListStaysComplete DEF ListIsComplete
<1>4. QED
  BY <1>2, <1>3 DEF DeletionInv

\* A deletion that commits is over.
LEMMA CommitEndsCall ==
  ASSUME TypeInv, NEW b \in Browsers, DeleteCommit(b)
  PROVE  call'[b] # call[b]
<1>1. call[b].at = "DeleteCommit"
  BY DEF DeleteCommit
<1>2. call'[b].at = "none"
  BY DEF DeleteCommit, Ends, Goes, NoCall, TypeInv, AccountsTypeOK
<1>3. QED
  BY <1>1, <1>2

LEMMA DeletionBook ==
  ASSUME TypeInv, DeletionInv, NEW b \in Browsers, BookCommit(b)
  PROVE  DeletionInv'
<1>1. Next /\ \A x \in Browsers : ~ DeleteCommit(x)
  BY ZenonT(60) DEF BookCommit, DeleteCommit, Next, Ends, Goes, TypeInv, AccountsTypeOK, NoCall
<1>2. ASSUME NEW i \in UserIds, Leaving(i)
      PROVE  NothingNewFor(i)
  BY <1>2 DEF BookCommit, NothingNewFor, BookedInTime, TypeInv, AccountsTypeOK
<1>3. \A i \in UserIds : Deleted(i)' => Forgotten(i)'
  BY <1>1, <1>2, ForgottenStays DEF Leaving
<1>4. ASSUME NEW x \in Browsers
      PROVE  ListIsComplete(x)'
  <2>1. CASE x = b
    BY <2>1 DEF BookCommit, Ends, Goes, NoCall, TypeInv, AccountsTypeOK, ListIsComplete
  <2>2. CASE x # b
    <3>1. call'[x] = call[x] /\ call[x] \in Call
      BY <2>2 DEF BookCommit, Ends, Goes, TypeInv, AccountsTypeOK
    <3>2. call[x].at = "DeleteCommit" => call[x].id \in UserIds /\ Leaving(call[x].id)
      BY <3>1, CallShape DEF Leaving
    <3>3. QED
      BY <1>2, <3>1, <3>2, ListStaysComplete
  <2>3. QED
    BY <2>1, <2>2
<1>5. QED
  BY <1>3, <1>4 DEF DeletionInv

LEMMA DeletionStarts ==
  ASSUME TypeInv, DeletionInv, NEW a \in ApptIds, Starts(a)
  PROVE  DeletionInv'
<1>1. [Next]_vars /\ \A b \in Browsers : ~ DeleteCommit(b)
  BY CommitEndsCall DEF Next, Starts
<1>2. appt[a] \in Appointment /\ appt' = [appt EXCEPT ![a].status = "past"]
  BY DEF Starts, TypeInv, AccountsTypeOK
<1>3. /\ appt'[a] = [appt[a] EXCEPT !.status = "past"]
      /\ \A x \in ApptIds \ {a} : appt'[x] = appt[x]
  BY <1>2 DEF TypeInv, AccountsTypeOK
<1>4. \A i : NothingNewFor(i)
  BY <1>2, <1>3 DEF NothingNewFor, BookedInTime, Appointment, Starts
<1>5. \A i \in UserIds : Deleted(i)' => Forgotten(i)'
  BY <1>1, <1>4, ForgottenStays
<1>6. \A b \in Browsers : ListIsComplete(b)'
  BY <1>4, ListStaysComplete DEF Starts
<1>7. QED
  BY <1>5, <1>6 DEF DeletionInv

LEMMA DeletionBegins ==
  ASSUME TypeInv, DeletionInv, NEW b \in Browsers, DeleteList(b)
  PROVE  DeletionInv'
<1>1. [Next]_vars
  BY DEF Next
<1>a. \A x \in Browsers : ~ DeleteCommit(x)
  <2>1. ASSUME NEW x \in Browsers, DeleteCommit(x)
        PROVE  FALSE
    <3>1. call[x].at = "DeleteCommit" /\ call'[x] # call[x]
      BY <2>1, CommitEndsCall DEF DeleteCommit
    <3>2. call[b].at = "none"
      BY DEF DeleteList, Idle, NoCall
    <3>3. x = b \/ call'[x] = call[x]
      BY DEF DeleteList, Goes, TypeInv, AccountsTypeOK
    <3>4. QED
      BY <3>1, <3>2, <3>3
  <2>2. QED
    BY <2>1
<1>2. \A i : NothingNewFor(i)
  BY DEF DeleteList, rows, NothingNewFor, BookedInTime
<1>3. \A i \in UserIds : Deleted(i)' => Forgotten(i)'
  BY <1>1, <1>a, <1>2, ForgottenStays
<1>4. ASSUME NEW x \in Browsers
      PROVE  ListIsComplete(x)'
  <2>1. CASE x = b
    BY <2>1 DEF DeleteList, Goes, Listed, rows, TypeInv, AccountsTypeOK,
                ListIsComplete, BookedInTime
  <2>2. CASE x # b
    BY <1>2, <2>2, ListStaysComplete DEF DeleteList, Goes, TypeInv, AccountsTypeOK
  <2>3. QED
    BY <2>1, <2>2
<1>5. QED
  BY <1>3, <1>4 DEF DeletionInv

LEMMA DeletionCommits ==
  ASSUME TypeInv, DeletionInv, NEW b \in Browsers, DeleteCommit(b)
  PROVE  DeletionInv'
<1>1. PICK i \in UserIds, l \in SUBSET ApptIds :
        i = call[b].id /\ l = call[b].listed /\ user[i] # None
  BY CallShape DEF DeleteCommit, TypeInv, AccountsTypeOK, CallsNameRows, NamesRows
<1> DEFINE row == Anonymized(i)
<1>2. /\ row.email = i /\ row.passwordHash = FALSE /\ row.consent = FALSE
  BY <1>1, UserShape, AnonymizedFields DEF TypeInv
<1>3. /\ user' = [user EXCEPT ![i] = row]
      /\ appt' = [a \in ApptIds |-> Resolved(a, l, i)]
      /\ call' = [call EXCEPT ![b] = NoCall]
  BY <1>1 DEF DeleteCommit, Ends, Goes
<1> HIDE DEF row
<1>4. user'[i] = row /\ \A j \in UserIds \ {i} : user'[j] = user[j]
  BY <1>3 DEF TypeInv, AccountsTypeOK
<1>5. \A a \in ApptIds : appt[a] # None => appt[a] \in Appointment
  BY DEF TypeInv, AccountsTypeOK
<1>6. ASSUME NEW a \in ApptIds, NEW j, BookedInTime(a, j)'
      PROVE  /\ BookedInTime(a, j)
             /\ appt'[a].status = appt[a].status \/ appt'[a].status = "cancelled"
             /\ appt'[a].mail => appt[a].mail
             /\ j = i => appt'[a].status # "open" /\ (a \in l => ~ appt'[a].mail)
  <2>1. appt'[a] = Resolved(a, l, i)
    BY <1>3
  <2>2. appt[a] # None
    BY <1>6, <2>1 DEF Resolved, BookedInTime
  <2>3. CASE appt[a].client # i
    BY <1>6, <2>1, <2>2, <2>3 DEF Resolved, BookedInTime
  <2>4. CASE appt[a].client = i
    <3>1. appt'[a] = [appt[a] EXCEPT !.mail = @ /\ a \notin l,
                                     !.status = IF @ = "open" THEN "cancelled" ELSE @]
      BY <2>1, <2>2, <2>4 DEF Resolved
    <3>2. /\ appt'[a].client = i /\ appt'[a].late = appt[a].late
          /\ appt'[a].mail = (appt[a].mail /\ a \notin l)
          /\ appt'[a].status = IF appt[a].status = "open" THEN "cancelled" ELSE appt[a].status
      BY <1>5, <2>2, <2>4, <3>1 DEF Appointment
    <3>3. QED
      BY <1>6, <2>2, <2>4, <3>2 DEF BookedInTime
  <2>5. QED
    BY <2>3, <2>4
<1>7. ASSUME NEW j \in UserIds, Deleted(j)'
      PROVE  Forgotten(j)'
  <2>1. CASE j = i
    <3>1. ASSUME NEW a \in ApptIds, BookedInTime(a, i)'
          PROVE  appt'[a].status # "open" /\ ~ appt'[a].mail
      <4>1. a \in l
        BY <1>1, <1>6, <3>1 DEF DeletionInv, ListIsComplete, DeleteCommit
      <4>2. QED
        BY <1>6, <3>1, <4>1
    <3>2. QED
      BY <1>2, <1>4, <2>1, <3>1 DEF Forgotten
  <2>2. CASE j # i
    <3>1. Deleted(j) /\ user'[j] = user[j]
      BY <1>4, <1>7, <2>2 DEF Deleted, anonymizedEmailFor
    <3>2. Forgotten(j)
      BY <3>1 DEF DeletionInv
    <3>3. \A a \in ApptIds : BookedInTime(a, j)' => appt'[a].status # "open" /\ ~ appt'[a].mail
      BY <1>6, <3>2 DEF Forgotten
    <3>4. QED
      BY <3>1, <3>2, <3>3 DEF Forgotten
  <2>3. QED
    BY <2>1, <2>2
<1>8. ASSUME NEW x \in Browsers
      PROVE  ListIsComplete(x)'
  <2>1. CASE x = b
    BY <1>3, <2>1 DEF NoCall, TypeInv, AccountsTypeOK, ListIsComplete
  <2>2. CASE x # b
    <3>1. call'[x] = call[x]
      BY <1>3, <2>2 DEF TypeInv, AccountsTypeOK
    <3>2. \A j : \A a \in ApptIds : BookedInTime(a, j)' => BookedInTime(a, j)
      BY <1>6
    <3>3. ListIsComplete(x)
      BY DEF DeletionInv
    <3>4. QED
      BY <3>1, <3>2, <3>3 DEF ListIsComplete, BookedInTime
  <2>3. QED
    BY <2>1, <2>2
<1>9. QED
  BY <1>7, <1>8 DEF DeletionInv

LEMMA DeletionNext == TypeInv /\ DeletionInv /\ [Next]_vars => DeletionInv'
<1> SUFFICES ASSUME TypeInv, DeletionInv, [Next]_vars
             PROVE  DeletionInv'
  OBVIOUS
<1>1. CASE \/ \E b \in Browsers : BookCommit(b) \/ DeleteList(b) \/ DeleteCommit(b)
           \/ \E a \in ApptIds : Starts(a)
  BY <1>1, DeletionBook, DeletionBegins, DeletionCommits, DeletionStarts
<1>2. CASE /\ ~ \E b \in Browsers : BookCommit(b) \/ DeleteList(b) \/ DeleteCommit(b)
           /\ ~ \E a \in ApptIds : Starts(a)
  <2>1. appt' = appt
    BY <1>2, RowsStep
    DEF Next, vars, RegisterLook, RegisterCreate, SignInFind, SignInVerify, GoogleFind,
        GoogleCreate, GoogleRefind, SessionEnds, CreateInvite, AcceptInvite,
        AcceptCommit, Book, CallDies, rows
  <2>2. \A b \in Browsers : call'[b] = call[b] \/ call'[b].at # "DeleteCommit"
    <3> DEFINE G(x) == \/ call' = call
                       \/ \E c : Goes(x, c) /\ c.at # "DeleteCommit"
    <3>1. NoCall.at # "DeleteCommit"
      BY DEF NoCall
    <3>2. ASSUME NEW x \in Browsers, RegisterCreate(x)
          PROVE  G(x)
      <4>1. call[x] \in Call /\ call[x].at = "RegisterCreate"
        BY <3>2 DEF RegisterCreate, TypeInv, AccountsTypeOK
      <4>2. [call[x] EXCEPT !.at = "SignInFind"].at = "SignInFind"
        BY <4>1 DEF Call, NoCall
      <4>3. QED
        BY <3>1, <3>2, <4>2 DEF RegisterCreate, Ends
    <3>3. ASSUME NEW x \in Browsers, GoogleCreate(x)
          PROVE  G(x)
      <4>1. call[x] \in Call /\ call[x].at = "GoogleCreate"
        BY <3>3 DEF GoogleCreate, TypeInv, AccountsTypeOK
      <4>2. [call[x] EXCEPT !.at = "GoogleRefind"].at = "GoogleRefind"
        BY <4>1 DEF Call, NoCall
      <4>3. QED
        BY <3>1, <3>3, <4>2 DEF GoogleCreate, Ends
    <3>4. ASSUME NEW x \in Browsers, NEW e \in Emails,
                 RegisterLook(x, e) \/ SignInFind(x, e) \/ GoogleFind(x, e) \/ CreateInvite(x, e)
          PROVE  G(x)
      <4>1. CASE RegisterLook(x, e)
        BY <4>1 DEF RegisterLook
      <4>2. CASE SignInFind(x, e)
        <5>1. \A i : [at |-> "SignInVerify", id |-> i, row |-> user[i]].at # "DeleteCommit"
          OBVIOUS
        <5>2. QED
          BY <3>1, <4>2, <5>1 DEF SignInFind, Ends
      <4>3. CASE GoogleFind(x, e)
        BY <3>1, <4>3 DEF GoogleFind, Ends
      <4>4. CASE CreateInvite(x, e)
        BY <4>4 DEF CreateInvite
      <4>5. QED
        BY <3>4, <4>1, <4>2, <4>3, <4>4
    <3>5. ASSUME NEW x \in Browsers, NEW v \in InviteIds, AcceptInvite(x, v)
          PROVE  G(x)
      BY <3>5 DEF AcceptInvite
    <3>6. ASSUME NEW x \in Browsers,
                 SignInVerify(x) \/ GoogleRefind(x) \/ AcceptCommit(x) \/ CallDies(x)
          PROVE  G(x)
      BY <3>1, <3>6 DEF SignInVerify, GoogleRefind, AcceptCommit, CallDies, Ends
    <3>7. ASSUME NEW x \in Browsers, Book(x) \/ SessionEnds(x)
          PROVE  G(x)
      BY <3>7 DEF Book, SessionEnds
    <3>8. call' = call \/ \E x \in Browsers : G(x)
      <4> HIDE DEF G
      <4>1. CASE UNCHANGED vars
        BY <4>1 DEF vars
      <4>2. CASE Next
        BY <1>2, <3>2, <3>3, <3>4, <3>5, <3>6, <3>7, <4>2 DEF Next
      <4>3. QED
        BY <4>1, <4>2
    <3>9. ASSUME NEW x \in Browsers, NEW c, Goes(x, c), c.at # "DeleteCommit",
                 NEW b \in Browsers
          PROVE  call'[b] = call[b] \/ call'[b].at # "DeleteCommit"
      BY <3>9 DEF Goes, TypeInv, AccountsTypeOK
    <3>10. QED
      BY <3>8, <3>9
  <2>3. QED
    BY <1>2, <2>1, <2>2, DeletionRests
<1>3. QED
  BY <1>1, <1>2

\* A deletion leaves nothing behind of what was there when it read, whatever is
\* booked, starts or is deleted again meanwhile (me-privacy.ts 101-142).
THEOREM AccountsDeletionForgets == Spec => []DeletedLeavesNothingBehind
<1>1. DeletionInv => DeletedLeavesNothingBehind
  BY DEF DeletionInv, Forgotten, BookedInTime, DeletedLeavesNothingBehind
<1>2. QED
  BY <1>1, DeletionInit, DeletionNext, AccountsTypeInv, PTL DEF Spec

=============================================================================
