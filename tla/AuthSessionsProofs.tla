------------------------- MODULE AuthSessionsProofs -------------------------
(***************************************************************************)
(* Proofs about AuthSessions: type correctness, that a spent code or token *)
(* buys nothing, how often one can be exchanged by calls that race, and    *)
(* that logins are recorded, for any number of users, contacts, handlers,  *)
(* failures and grants, with or without an outbox.                         *)
(***************************************************************************)
EXTENDS AuthSessions, FiniteSetTheorems, TLAPS

\* The codes in the table, and the logins on record, are of codes that were sent.
RowsWereSent ==
    /\ \A r \in codes : r[2] \in 1..Len(sent)
    /\ \A n \in 1..MaxCodes : <<"user_logged_in", n>> \in outbox => n <= Len(sent)

\* What a handler carries from one step of its call to the next, when the tables
\* have rows and the history has grants up to these numbers.
CallSound(c, lastCode, lastGrant) ==
    /\ c.pc # "idle" => c.user \in User
    /\ c.pc = "verified" => c.cred \in Codes /\ c.cred[2] \in 1..lastCode
    /\ c.pc \in {"checked", "issued"} => c.cred \in Tokens
    /\ c.pc = "issued" => c.grant \in 1..lastGrant
CallsSound == \A h \in Handler : CallSound(call[h], Len(sent), Len(grants))

WellFormed == TypeOK /\ RowsWereSent /\ CallsSound

\* A code is a row number under the tag "code", a token one under another tag.
LEMMA CredentialShape ==
    /\ \A r \in Codes : r = <<"code", r[2]>> /\ r[2] \in 1..MaxCodes
    /\ \A g \in 1..MaxGrants : RefreshToken(g) \in Tokens
    /\ Bearer \subseteq Tokens /\ Refreshers \X (1..MaxGrants) \subseteq Tokens
    /\ \A t \in Tokens : t[2] \in 1..MaxGrants
    /\ Codes \intersect Tokens = {}
<1>1. Bearer \subseteq Tokens /\ Refreshers \X (1..MaxGrants) \subseteq Tokens
  BY KindAssumption DEF Tokens, Bearer
<1> QED BY <1>1 DEF Codes, Tokens, RefreshToken

\* Writing one well-typed call keeps the array of calls well typed and sound.
LEMMA GotoTyped ==
    ASSUME TypeOK, NEW h \in Handler, NEW c \in Calls, Goto(h, c)
    PROVE  /\ call' \in [Handler -> Calls]
           /\ call'[h] = c
           /\ \A k \in Handler : k # h => call'[k] = call[k]
BY DEF TypeOK, Goto

LEMMA IdleTyped == Idle \in Calls
BY BoundsAssumption DEF Idle, Calls, NoCred, Credential

LEMMA ActingTyped ==
    ASSUME NEW pc \in {"idle", "verified", "invalidated", "checked", "issued", "loggedOut"},
           NEW u \in User, NEW cred \in Credential
    PROVE  Acting(pc, u, cred) \in Calls
BY IdleTyped DEF Acting, Calls

LEMMA ExchangingTyped ==
    ASSUME NEW pc \in {"verified", "checked"},
           NEW u \in User, NEW cred \in Credential, NEW late \in BOOLEAN
    PROVE  Exchanging(pc, u, cred, late) \in Calls
<1>1. Acting(pc, u, cred) \in Calls
  BY ActingTyped
<1>2. \A b \in BOOLEAN : [Acting(pc, u, cred) EXCEPT !.reused = b, !.late = late] \in Calls
  BY <1>1 DEF Calls
<1> DEFINE reused == cred \in retired
<1>3. reused \in BOOLEAN
  OBVIOUS
<1>4. [Acting(pc, u, cred) EXCEPT !.reused = reused, !.late = late] \in Calls
  <2> HIDE DEF reused
  <2> QED BY <1>2, <1>3
<1> QED BY <1>4 DEF Exchanging

\* The holder of a verified token is a user.
LEMMA SubjectIsUser ==
    ASSUME TypeOK, NEW t \in Tokens, VerifyToken(t)
    PROVE  t[2] \in 1..Len(grants) /\ Subject(t) \in User
<1>1. t[2] \in 1..Len(grants)
  BY DEF TypeOK, VerifyToken
<1>2. \A g \in 1..Len(grants) : grants[g] \in Grants
  BY DEF TypeOK
<1> QED BY <1>1, <1>2 DEF Subject, Grants

\* What storing a new pair of tokens does to the tables.
LEMMA NewGrantTyped ==
    ASSUME TypeOK, NEW h \in Handler, call[h].user \in User, NewGrant(h)
    PROVE  /\ grants' \in Seq(Grants)
           /\ Len(grants') = Len(grants) + 1
           /\ Len(grants') <= MaxGrants
           /\ \A g \in 1..Len(grants) : grants'[g] = grants[g]
           /\ grants'[Len(grants')].from = call[h].cred
           /\ grants'[Len(grants')].reused = call[h].reused
           /\ grants'[Len(grants')].late = call[h].late
           /\ DOMAIN sessions' \subseteq {RefreshToken(g) : g \in 1..Len(grants')}
           /\ \A s \in DOMAIN sessions' : sessions'[s] \in [user : User, revoked : BOOLEAN]
           /\ failures' \in 0..MaxFailures
<1> DEFINE new == [user |-> call[h].user, from |-> call[h].cred,
                   reused |-> call[h].reused, late |-> call[h].late]
<1>1. call[h] \in Calls
  BY DEF TypeOK
<1>2. new \in Grants
  BY <1>1 DEF Calls, Grants
<1>3. grants \in Seq(Grants) /\ Len(grants) <= MaxGrants /\ Len(grants) < MaxGrants
      /\ grants' = Append(grants, new)
  BY DEF TypeOK, NewGrant, CreateSession
<1>4. /\ grants' \in Seq(Grants) /\ Len(grants') = Len(grants) + 1
      /\ \A g \in 1..Len(grants) : grants'[g] = grants[g]
      /\ grants'[Len(grants')] = new
  <2> HIDE DEF new
  <2> QED BY <1>2, <1>3
<1>5. Len(grants') <= MaxGrants
  BY <1>3, <1>4, BoundsAssumption
<1>6. failures' \in 0..MaxFailures
  BY BoundsAssumption DEF TypeOK, NewGrant, CreateSession, Succeeds, Fails
<1>7. /\ DOMAIN sessions' \subseteq {RefreshToken(g) : g \in 1..Len(grants')}
      /\ \A s \in DOMAIN sessions' : sessions'[s] \in [user : User, revoked : BOOLEAN]
  <2>1. /\ DOMAIN sessions \subseteq {RefreshToken(g) : g \in 1..Len(grants')}
        /\ RefreshToken(Len(grants) + 1) \in {RefreshToken(g) : g \in 1..Len(grants')}
    BY <1>3, <1>4 DEF TypeOK
  <2>2. [user |-> call[h].user, revoked |-> FALSE] \in [user : User, revoked : BOOLEAN]
    OBVIOUS
  <2>3. CASE UNCHANGED sessions
    BY <2>1, <2>3 DEF TypeOK
  <2>4. ASSUME NEW new_id, new_id = RefreshToken(Len(grants) + 1),
               sessions' = [s \in DOMAIN sessions \union {new_id} |->
                   IF s = new_id
                   THEN [user |-> call[h].user, revoked |-> FALSE] ELSE sessions[s]]
        PROVE  <1>7!1 /\ <1>7!2
    BY <2>1, <2>2, <2>4 DEF TypeOK
  <2> QED BY <2>3, <2>4 DEF NewGrant, CreateSession
<1> QED BY <1>4, <1>5, <1>6, <1>7

\* Revoking rows leaves rows.
LEMMA RevokeTyped ==
    ASSUME TypeOK, NEW which, Revoke(which)
    PROVE  /\ DOMAIN sessions' = DOMAIN sessions
           /\ \A s \in DOMAIN sessions' : sessions'[s] \in [user : User, revoked : BOOLEAN]
<1>1. ASSUME NEW s \in DOMAIN sessions
      PROVE  [sessions[s] EXCEPT !.revoked = @ \/ s \in which]
                 \in [user : User, revoked : BOOLEAN]
  <2>1. \A b \in BOOLEAN :
            [sessions[s] EXCEPT !.revoked = b] \in [user : User, revoked : BOOLEAN]
    BY <1>1 DEF TypeOK
  <2> QED BY <2>1
<1> QED BY <1>1 DEF Revoke

\* The initial state is well formed.
LEMMA InitWellFormed == Init => WellFormed
<1> SUFFICES ASSUME Init PROVE WellFormed
  OBVIOUS
<1>1. TypeOK
  <2>1. age \in [1..MaxGrants -> Ages]
    BY DEF Init, Ages
  <2>2. call \in [Handler -> Calls]
    BY IdleTyped DEF Init
  <2> QED BY <2>1, <2>2, BoundsAssumption DEF Init, TypeOK
<1>2. RowsWereSent
  BY DEF Init, RowsWereSent
<1>3. CallsSound
  BY DEF Init, CallsSound, CallSound, Idle
<1> QED BY <1>1, <1>2, <1>3 DEF WellFormed

\* A step that leaves the calls and the tables they refer to keeps the calls sound.
LEMMA CallsKept ==
    ASSUME CallsSound, UNCHANGED <<sent, grants, call>>
    PROVE  CallsSound'
BY DEF CallsSound, CallSound

\* So does a step that moves one call and only lets those tables grow.
LEMMA OneCallMoved ==
    ASSUME WellFormed, NEW h \in Handler, NEW c \in Calls, Goto(h, c),
           UNCHANGED sent, Len(grants') \in Nat, Len(grants') >= Len(grants),
           CallSound(c, Len(sent'), Len(grants'))
    PROVE  call' \in [Handler -> Calls] /\ CallsSound'
<1>1. /\ call' \in [Handler -> Calls] /\ call'[h] = c
      /\ \A k \in Handler : k # h => call'[k] = call[k]
  BY GotoTyped DEF WellFormed
<1>2. Len(grants) \in Nat
  BY DEF WellFormed, TypeOK
<1>3. ASSUME NEW k \in Handler PROVE CallSound(call'[k], Len(sent'), Len(grants'))
  <2>1. CASE k = h
    BY <2>1, <1>1
  <2>2. CASE k # h
    BY <2>2, <1>1, <1>2 DEF WellFormed, CallsSound, CallSound
  <2> QED BY <2>1, <2>2
<1> QED BY <1>1, <1>3 DEF CallsSound

\* A call that ends, or goes on from "loggedOut", refers to no table.
LEMMA CallEnds ==
    ASSUME WellFormed, NEW h \in Handler, Goto(h, Idle), sent' = sent, grants' = grants
    PROVE  call' \in [Handler -> Calls] /\ CallsSound'
<1>1. CallSound(Idle, Len(sent'), Len(grants'))
  <2>1. Idle.pc = "idle" BY DEF Idle
  <2> QED BY <2>1 DEF CallSound
<1>2. UNCHANGED sent /\ Len(grants') \in Nat /\ Len(grants') >= Len(grants)
  BY DEF WellFormed, TypeOK
<1> QED BY <1>1, <1>2, IdleTyped, OneCallMoved

LEMMA CallGoesOn ==
    ASSUME WellFormed, NEW h \in Handler, NEW u \in User,
           Goto(h, Acting("loggedOut", u, NoCred)), sent' = sent, grants' = grants
    PROVE  call' \in [Handler -> Calls] /\ CallsSound'
<1>1. PICK c \in Calls : c = Acting("loggedOut", u, NoCred)
  BY ActingTyped DEF Credential
<1>2. c.pc = "loggedOut" /\ c.user = u
  BY <1>1 DEF Acting, Idle
<1>3. CallSound(c, Len(sent'), Len(grants'))
  BY <1>2 DEF CallSound
<1>4. UNCHANGED sent /\ Len(grants') \in Nat /\ Len(grants') >= Len(grants)
  BY DEF WellFormed, TypeOK
<1>5. Goto(h, c)
  BY <1>1
<1> QED BY <1>3, <1>4, <1>5, OneCallMoved

\* Every action keeps the state well formed.
LEMMA RequestLoginWellFormed ==
    ASSUME WellFormed, NEW c \in Contact, RequestLogin(c)
    PROVE  WellFormed'
<1> DEFINE n == Len(sent) + 1
<1>1. /\ sent \in Seq(Contact) /\ Len(sent) < MaxCodes /\ sent' = Append(sent, c)
  BY DEF WellFormed, TypeOK, RequestLogin, CreateMagicCode
<1>2. sent' \in Seq(Contact) /\ Len(sent') = n /\ n \in 1..MaxCodes
  BY <1>1, BoundsAssumption
<1>3. /\ codes' = codes \union {<<"code", n>>}
      /\ outbox' \subseteq outbox \union {<<"magic_code_requested", n>>}
  BY DEF RequestLogin, CreateMagicCode, Store
<1>4. TypeOK'
  BY <1>2, <1>3 DEF WellFormed, TypeOK, RequestLogin, CreateMagicCode, Codes
<1>5. RowsWereSent'
  BY <1>1, <1>2, <1>3 DEF WellFormed, TypeOK, RowsWereSent
<1>6. CallsSound'
  BY <1>1, <1>2 DEF WellFormed, CallsSound, CallSound, RequestLogin, CreateMagicCode
<1> QED BY <1>4, <1>5, <1>6 DEF WellFormed

LEMMA CompleteLoginWellFormed ==
    ASSUME WellFormed, NEW h \in Handler, CompleteLogin(h)
    PROVE  WellFormed'
<1>1. ASSUME NEW r \in Codes, VerifyCode(h, r) PROVE WellFormed'
  <2>1. r[2] \in 1..Len(sent)
    BY <1>1 DEF WellFormed, RowsWereSent, VerifyCode, GetValidMagicCode
  <2>2. OwnerOf[sent[r[2]]] \in User
    BY <2>1, OwnerAssumption DEF WellFormed, TypeOK
  <2>3. PICK c \in Calls :
            c = Exchanging("verified", OwnerOf[sent[r[2]]], r, FALSE) /\ Goto(h, c)
    BY <1>1, <2>2, ExchangingTyped DEF VerifyCode, GetValidMagicCode, Credential
  <2>4. c.pc = "verified" /\ c.user \in User /\ c.cred = r
    BY <2>2, <2>3 DEF Exchanging, Acting, Idle
  <2>5. Len(grants) \in Nat /\ UNCHANGED <<sent, grants>>
    BY <1>1 DEF WellFormed, TypeOK, VerifyCode, GetValidMagicCode
  <2>6. CallSound(c, Len(sent'), Len(grants'))
    BY <2>1, <2>4, <2>5 DEF CallSound
  <2>7. call' \in [Handler -> Calls] /\ CallsSound'
    <3>1. Goto(h, c) BY <2>3
    <3>2. UNCHANGED sent /\ Len(grants') \in Nat /\ Len(grants') >= Len(grants) BY <2>5
    <3> QED BY <2>6, <3>1, <3>2, OneCallMoved
  <2>8. TypeOK'
    BY <1>1, <2>7 DEF WellFormed, TypeOK, VerifyCode, GetValidMagicCode
  <2>9. RowsWereSent'
    BY <1>1 DEF WellFormed, RowsWereSent, VerifyCode, GetValidMagicCode
  <2> QED BY <2>7, <2>8, <2>9 DEF WellFormed
<1>2. ASSUME InvalidateCodes(h) PROVE WellFormed'
  <2> DEFINE r == call[h].cred
  <2>1. call[h] \in Calls /\ call[h].user \in User
        /\ r \in Codes /\ r[2] \in 1..Len(sent)
    BY <1>2 DEF WellFormed, TypeOK, CallsSound, CallSound, InvalidateCodes, At
  <2>2. PICK c \in Calls : /\ c = [call[h] EXCEPT !.pc = "invalidated"]
                            /\ c.pc = "invalidated" /\ c.user \in User
    <3>1. [call[h] EXCEPT !.pc = "invalidated"] \in Calls
      BY <2>1 DEF Calls
    <3>2. /\ [call[h] EXCEPT !.pc = "invalidated"].pc = "invalidated"
          /\ [call[h] EXCEPT !.pc = "invalidated"].user = call[h].user
      BY <2>1 DEF Calls
    <3> QED BY <2>1, <3>1, <3>2
  <2>3. Goto(h, c) /\ Len(grants) \in Nat /\ UNCHANGED <<sent, grants>>
    BY <1>2, <2>2 DEF WellFormed, TypeOK, InvalidateCodes
  <2>4. call' \in [Handler -> Calls] /\ CallsSound'
    <3>1. CallSound(c, Len(sent'), Len(grants')) BY <2>2 DEF CallSound
    <3> QED BY <2>2, <2>3, <3>1, OneCallMoved
  <2>5. CodesOf(sent[r[2]]) \subseteq codes /\ r[2] \in 1..MaxCodes
    BY <2>1, CredentialShape DEF CodesOf
  <2>6. /\ codes' \subseteq codes
        /\ retired' \subseteq Codes \union Tokens
        /\ outbox' \subseteq outbox \union {<<"user_logged_in", r[2]>>}
        /\ failures' \in 0..MaxFailures
    BY <1>2, <2>1, <2>5, BoundsAssumption
       DEF InvalidateCodes, Store, WellFormed, TypeOK, Succeeds, Fails
  <2>7. TypeOK'
    BY <1>2, <2>4, <2>5, <2>6 DEF InvalidateCodes, WellFormed, TypeOK
  <2>8. RowsWereSent'
    BY <2>1, <2>3, <2>6 DEF WellFormed, RowsWereSent
  <2> QED BY <2>4, <2>7, <2>8 DEF WellFormed
<1>3. ASSUME GenerateLoginResponse(h) PROVE WellFormed'
  <2>1. call[h].user \in User /\ NewGrant(h) /\ Goto(h, Idle)
    BY <1>3 DEF GenerateLoginResponse, HandOut, WellFormed, CallsSound, CallSound, At
  <2>2. /\ grants' \in Seq(Grants) /\ Len(grants') = Len(grants) + 1 /\ Len(grants) \in Nat
        /\ held' \subseteq 1..Len(grants')
    <3>1. grants' \in Seq(Grants) /\ Len(grants') = Len(grants) + 1
      BY <2>1, NewGrantTyped DEF WellFormed
    <3>2. Len(grants) \in Nat /\ held \subseteq 1..Len(grants)
      BY DEF WellFormed, TypeOK
    <3>3. held' = held \union {Len(grants')}
      BY <1>3 DEF GenerateLoginResponse, HandOut
    <3>4. ASSUME NEW n \in Nat, held \subseteq 1..n
          PROVE  held \union {n + 1} \subseteq 1..(n + 1)
      BY <3>4
    <3> QED BY <3>1, <3>2, <3>3, <3>4
  <2>3. CallSound(Idle, Len(sent'), Len(grants'))
    <3>1. Idle.pc = "idle" BY DEF Idle
    <3> QED BY <3>1 DEF CallSound
  <2>4. call' \in [Handler -> Calls] /\ CallsSound'
    <3>1. UNCHANGED sent /\ Len(grants') \in Nat /\ Len(grants') >= Len(grants)
      BY <1>3, <2>2 DEF GenerateLoginResponse, HandOut
    <3> QED BY <2>1, <2>3, <3>1, IdleTyped, OneCallMoved
  <2>5. TypeOK'
    BY <1>3, <2>1, <2>2, <2>4, NewGrantTyped DEF GenerateLoginResponse, HandOut,
        WellFormed, TypeOK
  <2>6. RowsWereSent'
    BY <1>3 DEF GenerateLoginResponse, HandOut, WellFormed, RowsWereSent
  <2> QED BY <2>4, <2>5, <2>6 DEF WellFormed
<1> QED BY <1>1, <1>2, <1>3 DEF CompleteLogin

LEMMA RefreshSessionWellFormed ==
    ASSUME WellFormed, NEW h \in Handler, RefreshSession(h)
    PROVE  WellFormed'
<1>1. ASSUME NEW t \in Tokens, CheckRefresh(h, t) PROVE WellFormed'
  <2>2. VerifyToken(t) /\ CheckRefresh(h, t)
    BY <1>1 DEF CheckRefresh
  <2>3. Subject(t) \in User
    BY <2>2, SubjectIsUser DEF WellFormed
  <2>4. PICK c \in Calls : c = Exchanging("checked", Subject(t), t, Expired(t)) /\ Goto(h, c)
    <3> DEFINE late == Expired(t)
    <3>1. late \in BOOLEAN /\ t \in Credential
      BY DEF Expired, Credential
    <3>2. Goto(h, Exchanging("checked", Subject(t), t, late))
      BY <2>2 DEF CheckRefresh
    <3> HIDE DEF late
    <3>3. Exchanging("checked", Subject(t), t, late) \in Calls
      BY <2>3, <3>1, ExchangingTyped
    <3> QED BY <3>2, <3>3 DEF late
  <2>5. c.pc = "checked" /\ c.user \in User /\ c.cred = t
    BY <2>3, <2>4 DEF Exchanging, Acting, Idle
  <2>6. CallSound(c, Len(sent'), Len(grants'))
    BY <2>5 DEF CallSound
  <2>7. call' \in [Handler -> Calls] /\ CallsSound'
    <3>1. Goto(h, c) BY <2>4
    <3>2. UNCHANGED sent /\ Len(grants') \in Nat /\ Len(grants') >= Len(grants)
      BY <2>2 DEF CheckRefresh, WellFormed, TypeOK
    <3> QED BY <2>6, <3>1, <3>2, OneCallMoved
  <2>8. TypeOK'
    BY <2>2, <2>7 DEF WellFormed, TypeOK, CheckRefresh
  <2>9. RowsWereSent'
    BY <2>2 DEF WellFormed, RowsWereSent, CheckRefresh
  <2> QED BY <2>7, <2>8, <2>9 DEF WellFormed
<1>2. ASSUME IssueRefreshed(h) PROVE WellFormed'
  <2>1. /\ call[h] \in Calls /\ call[h].user \in User /\ call[h].cred \in Tokens
        /\ NewGrant(h)
    BY <1>2 DEF IssueRefreshed, WellFormed, TypeOK, CallsSound, CallSound, At
  <2>2. /\ grants' \in Seq(Grants) /\ Len(grants') = Len(grants) + 1 /\ Len(grants) \in Nat
        /\ Len(grants') \in 1..MaxGrants
    <3>1. grants' \in Seq(Grants) /\ Len(grants') = Len(grants) + 1 /\ Len(grants') <= MaxGrants
      BY <2>1, NewGrantTyped DEF WellFormed
    <3>2. Len(grants) \in Nat
      BY DEF WellFormed, TypeOK
    <3> QED BY <3>1, <3>2, BoundsAssumption
  <2>3. PICK c \in Calls : /\ c = [call[h] EXCEPT !.pc = "issued", !.grant = Len(grants')]
                            /\ c.pc = "issued" /\ c.user \in User /\ c.cred \in Tokens
                            /\ c.grant = Len(grants')
    <3>1. ASSUME NEW n \in 0..MaxGrants
          PROVE  LET d == [call[h] EXCEPT !.pc = "issued", !.grant = n] IN
                 /\ d \in Calls
                 /\ d.pc = "issued" /\ d.user = call[h].user /\ d.cred = call[h].cred
                 /\ d.grant = n
      BY <2>1 DEF Calls
    <3>2. Len(grants') \in 0..MaxGrants
      BY <2>2
    <3>3. LET d == [call[h] EXCEPT !.pc = "issued", !.grant = Len(grants')] IN
          /\ d \in Calls
          /\ d.pc = "issued" /\ d.user = call[h].user /\ d.cred = call[h].cred
          /\ d.grant = Len(grants')
      BY <3>1, <3>2
    <3> QED BY <2>1, <3>3
  <2>4. call' \in [Handler -> Calls] /\ CallsSound'
    <3>1. Goto(h, c) BY <1>2, <2>3 DEF IssueRefreshed
    <3>2. UNCHANGED sent /\ Len(grants') \in Nat /\ Len(grants') >= Len(grants)
      BY <1>2, <2>2 DEF IssueRefreshed
    <3>3. CallSound(c, Len(sent'), Len(grants'))
      BY <2>2, <2>3 DEF CallSound
    <3> QED BY <3>1, <3>2, <3>3, OneCallMoved
  <2>5. held' \subseteq 1..Len(grants')
    BY <1>2, <2>2 DEF IssueRefreshed, WellFormed, TypeOK
  <2>6. TypeOK'
    BY <1>2, <2>1, <2>4, <2>5, NewGrantTyped DEF IssueRefreshed, WellFormed, TypeOK
  <2>7. RowsWereSent'
    BY <1>2 DEF IssueRefreshed, WellFormed, RowsWereSent
  <2> QED BY <2>4, <2>6, <2>7 DEF WellFormed
<1>3. ASSUME RetireRefreshed(h) PROVE WellFormed'
  <2>1. /\ call[h].cred \in Tokens /\ call[h].grant \in 1..Len(grants)
        /\ Goto(h, Idle) /\ UNCHANGED <<sent, grants>> /\ Len(grants) \in Nat
    <3>1. call[h].pc = "issued" /\ CallSound(call[h], Len(sent), Len(grants))
      BY <1>3 DEF RetireRefreshed, HandOut, WellFormed, CallsSound, At
    <3>2. call[h].cred \in Tokens /\ call[h].grant \in 1..Len(grants)
      BY <3>1 DEF CallSound
    <3>3. Goto(h, Idle) /\ UNCHANGED <<sent, grants>> /\ Len(grants) \in Nat
      BY <1>3 DEF RetireRefreshed, HandOut, WellFormed, TypeOK
    <3> QED BY <3>2, <3>3
  <2>2. call' \in [Handler -> Calls] /\ CallsSound'
    BY <2>1, CallEnds
  <2>3. /\ blacklist' \subseteq Tokens /\ retired' \subseteq Codes \union Tokens
        /\ failures' \in 0..MaxFailures
    BY <1>3, <2>1, BoundsAssumption
       DEF RetireRefreshed, HandOut, BlacklistToken, InsertBlacklisted, Succeeds, Fails,
           WellFormed, TypeOK
  <2>4. held' \subseteq 1..Len(grants')
    BY <1>3, <2>1 DEF RetireRefreshed, HandOut, WellFormed, TypeOK
  <2>5. TypeOK'
    BY <1>3, <2>2, <2>3, <2>4 DEF RetireRefreshed, HandOut, WellFormed, TypeOK
  <2>6. RowsWereSent'
    BY <1>3 DEF RetireRefreshed, HandOut, WellFormed, RowsWereSent
  <2> QED BY <2>2, <2>5, <2>6 DEF WellFormed
<1> QED BY <1>1, <1>2, <1>3, CredentialShape DEF RefreshSession

LEMMA LogOutWellFormed ==
    ASSUME WellFormed, NEW h \in Handler, LogOut(h)
    PROVE  WellFormed'
<1>1. ASSUME NEW t \in Bearer, NEW inHeader \in BOOLEAN, NEW all \in BOOLEAN,
             Logout(h, t, inHeader, all)
      PROVE  WellFormed'
  <2>1. t \in Tokens
    BY CredentialShape
  <2>2. Subject(t) \in User /\ sent' = sent /\ grants' = grants
    BY <1>1, <2>1, SubjectIsUser DEF Logout, WellFormed
  <2>3. call' \in [Handler -> Calls] /\ CallsSound'
    <3>1. CASE all
      <4>1. Goto(h, Acting("loggedOut", Subject(t), NoCred)) BY <1>1, <3>1 DEF Logout
      <4> QED BY <2>2, <4>1, CallGoesOn
    <3>2. CASE ~all
      <4>1. Goto(h, Idle) BY <1>1, <3>2 DEF Logout
      <4> QED BY <2>2, <4>1, CallEnds
    <3> QED BY <3>1, <3>2
  <2>4. /\ blacklist' \subseteq Tokens /\ retired' \subseteq Codes \union Tokens
        /\ failures' \in 0..MaxFailures /\ revocations' \in 0..MaxRevocations
    BY <1>1, <2>1, BoundsAssumption
       DEF Logout, BlacklistToken, InsertBlacklisted, CountRevocation, Succeeds, Fails,
           WellFormed, TypeOK
  <2>5. TypeOK'
    BY <1>1, <2>3, <2>4 DEF Logout, WellFormed, TypeOK
  <2>6. RowsWereSent'
    BY <1>1 DEF Logout, WellFormed, RowsWereSent
  <2> QED BY <2>3, <2>5, <2>6 DEF WellFormed
<1>2. ASSUME LogoutEverywhere(h) PROVE WellFormed'
  <2>1. call' \in [Handler -> Calls] /\ CallsSound'
    <3>1. Goto(h, Idle) /\ sent' = sent /\ grants' = grants BY <1>2 DEF LogoutEverywhere,
        RevokeAllUserSessions
    <3> QED BY <3>1, CallEnds
  <2>2. /\ DOMAIN sessions' \subseteq DOMAIN sessions
        /\ \A s \in DOMAIN sessions' : sessions'[s] \in [user : User, revoked : BOOLEAN]
    BY <1>2, RevokeTyped DEF LogoutEverywhere, RevokeAllUserSessions, WellFormed, TypeOK
  <2>3. failures' \in 0..MaxFailures
    BY <1>2, BoundsAssumption DEF LogoutEverywhere, RevokeAllUserSessions, Succeeds,
        Fails, WellFormed, TypeOK
  <2>4. TypeOK'
    BY <1>2, <2>1, <2>2, <2>3 DEF LogoutEverywhere, RevokeAllUserSessions, WellFormed,
        TypeOK
  <2>5. RowsWereSent'
    BY <1>2 DEF LogoutEverywhere, RevokeAllUserSessions, WellFormed, RowsWereSent
  <2> QED BY <2>1, <2>4, <2>5 DEF WellFormed
<1> QED BY <1>1, <1>2 DEF LogOut

LEMMA AbandonWellFormed ==
    ASSUME WellFormed, NEW h \in Handler, Abandon(h)
    PROVE  WellFormed'
<1>1. call' \in [Handler -> Calls] /\ CallsSound'
  <2>1. Goto(h, Idle) /\ sent' = sent /\ grants' = grants BY DEF Abandon
  <2> QED BY <2>1, CallEnds
<1>2. failures' \in 0..MaxFailures
  BY BoundsAssumption DEF Abandon, Fails, WellFormed, TypeOK
<1>3. TypeOK'
  BY <1>1, <1>2 DEF Abandon, WellFormed, TypeOK
<1>4. RowsWereSent'
  BY DEF Abandon, WellFormed, RowsWereSent
<1> QED BY <1>1, <1>3, <1>4 DEF WellFormed

LEMMA RevocationWellFormed ==
    ASSUME WellFormed, NEW which, Revoke(which), CountRevocation,
           UNCHANGED <<outboxRepo, sent, codes, outbox, grants, held, age, blacklist, call,
                       retired, failures>>
    PROVE  WellFormed'
<1>1. /\ DOMAIN sessions' \subseteq DOMAIN sessions
      /\ \A s \in DOMAIN sessions' : sessions'[s] \in [user : User, revoked : BOOLEAN]
  BY RevokeTyped DEF WellFormed
<1>2. revocations' \in 0..MaxRevocations
  BY BoundsAssumption DEF CountRevocation, WellFormed, TypeOK
<1>3. TypeOK'
  BY <1>1, <1>2 DEF WellFormed, TypeOK
<1> QED BY <1>3, CallsKept DEF WellFormed, RowsWereSent

\* An administrative task changes no table but the sessions, from which it removes rows.
LEMMA AdminChanges ==
    ASSUME NEW task \in AdminTasks, RunAdminCommand(task)
    PROVE  /\ UNCHANGED <<outboxRepo, sent, codes, outbox, grants, held, age, blacklist, call,
                          retired, revocations, failures>>
           /\ DOMAIN sessions' \subseteq DOMAIN sessions
           /\ \A s \in DOMAIN sessions' : sessions'[s] = sessions[s]
<1>1. CASE UNCHANGED vars
  BY <1>1 DEF vars
<1>2. ASSUME NEW n \in 1..MaxGrants, CleanupExpiredSessions(n)
      PROVE  /\ DOMAIN sessions' \subseteq DOMAIN sessions
             /\ \A s \in DOMAIN sessions' : sessions'[s] = sessions[s]
  BY <1>2 DEF CleanupExpiredSessions
<1> QED BY <1>1, <1>2 DEF RunAdminCommand, CleanupExpiredSessions, CleanupExpiredMagicCodes

LEMMA AdminWellFormed ==
    ASSUME WellFormed, NEW task \in AdminTasks, RunAdminCommand(task)
    PROVE  WellFormed'
<1>1. /\ UNCHANGED <<outboxRepo, sent, codes, outbox, grants, held, age, blacklist, call,
                      retired, revocations, failures>>
      /\ DOMAIN sessions' \subseteq DOMAIN sessions
      /\ \A s \in DOMAIN sessions' : sessions'[s] = sessions[s]
  BY AdminChanges
<1>2. TypeOK'
  BY <1>1 DEF WellFormed, TypeOK
<1> QED BY <1>1, <1>2, CallsKept DEF WellFormed, RowsWereSent

LEMMA TimeWellFormed ==
    ASSUME WellFormed, Time
    PROVE  WellFormed'
<1>1. ASSUME NEW r \in Codes, ExpireCode(r) PROVE WellFormed'
  <2>1. TypeOK'
    BY <1>1 DEF ExpireCode, WellFormed, TypeOK
  <2>2. RowsWereSent' /\ UNCHANGED <<sent, grants, call>>
    BY <1>1 DEF ExpireCode, WellFormed, RowsWereSent
  <2> QED BY <2>1, <2>2, CallsKept DEF WellFormed
<1>2. ASSUME NEW g \in 1..MaxGrants, Tick(g) PROVE WellFormed'
  <2>1. age' \in [1..MaxGrants -> Ages]
    BY <1>2 DEF Tick, WellFormed, TypeOK, Ages
  <2>2. TypeOK'
    BY <1>2, <2>1 DEF Tick, WellFormed, TypeOK
  <2>3. RowsWereSent' /\ UNCHANGED <<sent, grants, call>>
    BY <1>2 DEF Tick, WellFormed, RowsWereSent
  <2> QED BY <2>2, <2>3, CallsKept DEF WellFormed
<1> QED BY <1>1, <1>2 DEF Time

LEMMA StepWellFormed == WellFormed /\ [Next]_vars => WellFormed'
<1> SUFFICES ASSUME WellFormed, [Next]_vars PROVE WellFormed'
  OBVIOUS
<1>1. ASSUME NEW t \in Bearer, NEW includeCurrent \in BOOLEAN, NEW inHeader \in BOOLEAN,
             RevokeAllSessions(t, includeCurrent, inHeader)
      PROVE  WellFormed'
  BY <1>1, RevocationWellFormed DEF RevokeAllSessions, RevokeAllUserSessions
<1>2. ASSUME NEW t \in Bearer, NEW g \in 1..MaxGrants, RevokeSession(t, RefreshToken(g))
      PROVE  WellFormed'
  BY <1>2, RevocationWellFormed DEF RevokeSession, GetSessionByID
<1>3. CASE UNCHANGED vars
  <2>1. TypeOK'
    BY <1>3 DEF WellFormed, TypeOK, vars
  <2>2. RowsWereSent' /\ UNCHANGED <<sent, grants, call>>
    BY <1>3 DEF WellFormed, RowsWereSent, vars
  <2> QED BY <2>1, <2>2, CallsKept DEF WellFormed
<1> QED BY <1>1, <1>2, <1>3, AdminWellFormed, RequestLoginWellFormed,
           CompleteLoginWellFormed, RefreshSessionWellFormed, LogOutWellFormed, AbandonWellFormed, TimeWellFormed
        DEF Next

\* Every reachable state of the tables, of the tokens and of the calls under way is
\* well typed, whatever the failures and the interleaving of the handlers.
THEOREM TypeCorrect == Spec => []TypeOK
<1>1. WellFormed => TypeOK
  BY DEF WellFormed
<1> QED BY <1>1, InitWellFormed, StepWellFormed, PTL DEF Spec

-----------------------------------------------------------------------------

\* What makes a removal final: a removed code is in no row, a removed token is on
\* the blacklist, and a call whose credential was removed when it was presented
\* presented it after its expiry.
RemovalsHold ==
    /\ codes \intersect retired = {}
    /\ \A r \in retired : r \in Codes => r[2] \in 1..Len(sent)
    /\ retired \intersect Tokens \subseteq blacklist
    /\ \A h \in Handler : call[h].reused => call[h].late

SingleUseInv == WellFormed /\ RemovalsHold /\ SingleUse

\* A token enters the history of removals together with the blacklist.
LEMMA BlacklistingHolds ==
    ASSUME RemovalsHold, NEW t \in Tokens, BlacklistToken(t), UNCHANGED <<sent, codes>>,
           codes \subseteq Codes
    PROVE  /\ codes' \intersect retired' = {}
           /\ \A r \in retired' : r \in Codes => r[2] \in 1..Len(sent')
           /\ retired' \intersect Tokens \subseteq blacklist'
BY CredentialShape DEF RemovalsHold, BlacklistToken, InsertBlacklisted

\* A grant inherits the history of the call that makes it.
LEMMA NewGrantSingleUse ==
    ASSUME WellFormed, RemovalsHold, SingleUse, NEW h \in Handler,
           call[h].user \in User, NewGrant(h)
    PROVE  SingleUse'
<1>1. /\ Len(grants') = Len(grants) + 1 /\ Len(grants) \in Nat
      /\ \A g \in 1..Len(grants) : grants'[g] = grants[g]
      /\ grants'[Len(grants')].reused = call[h].reused
      /\ grants'[Len(grants')].late = call[h].late
  <2>1. TypeOK
    BY DEF WellFormed
  <2>2. Len(grants) \in Nat
    BY <2>1 DEF TypeOK
  <2> QED BY <2>1, <2>2, NewGrantTyped
<1>2. call[h].reused => call[h].late
  BY DEF RemovalsHold
<1>3. ASSUME NEW g \in 1..Len(grants') PROVE grants'[g].reused => grants'[g].late
  <2>1. CASE g \in 1..Len(grants)
    BY <2>1, <1>1 DEF SingleUse
  <2>2. CASE g = Len(grants')
    BY <2>2, <1>1, <1>2
  <2> QED BY <2>1, <2>2, <1>1
<1> QED BY <1>3 DEF SingleUse

\* Moving one call keeps the last part of RemovalsHold.
LEMMA CallsHold ==
    ASSUME WellFormed, RemovalsHold, NEW h \in Handler, NEW c, Goto(h, c),
           c.reused => c.late
    PROVE  \A k \in Handler : call'[k].reused => call'[k].late
BY DEF WellFormed, TypeOK, RemovalsHold, Goto

\* Idle and acting calls present nothing that was removed.
LEMMA IdleHolds == Idle.reused => Idle.late
BY DEF Idle

LEMMA ActingHolds ==
    ASSUME NEW pc, NEW u, NEW cred
    PROVE  Acting(pc, u, cred).reused => Acting(pc, u, cred).late
BY DEF Acting, Idle

LEMMA ExchangingHolds ==
    ASSUME NEW pc, NEW u, NEW cred, NEW late, cred \in retired => late
    PROVE  Exchanging(pc, u, cred, late).reused => Exchanging(pc, u, cred, late).late
BY DEF Exchanging, Acting, Idle

LEMMA CompleteLoginHolds ==
    ASSUME SingleUseInv, NEW h \in Handler, CompleteLogin(h)
    PROVE  RemovalsHold' /\ SingleUse'
<1>1. ASSUME NEW r \in Codes, VerifyCode(h, r) PROVE RemovalsHold' /\ SingleUse'
  <2>1. r \notin retired
    BY <1>1 DEF SingleUseInv, RemovalsHold, VerifyCode, GetValidMagicCode
  <2>2. \A k \in Handler : call'[k].reused => call'[k].late
    <3>1. PICK c : c = Exchanging("verified", OwnerOf[sent[r[2]]], r, FALSE)
      OBVIOUS
    <3>2. Goto(h, c) /\ (c.reused => c.late)
      BY <1>1, <2>1, <3>1, ExchangingHolds DEF VerifyCode, GetValidMagicCode
    <3> QED BY <3>2, CallsHold DEF SingleUseInv
  <2> QED BY <1>1, <2>2 DEF SingleUseInv, RemovalsHold, SingleUse, VerifyCode,
      GetValidMagicCode
<1>2. ASSUME InvalidateCodes(h) PROVE RemovalsHold' /\ SingleUse'
  <2> DEFINE r == call[h].cred
             gone == CodesOf(sent[r[2]])
  <2>1. r \in Codes /\ r[2] \in 1..Len(sent) /\ call[h] \in Calls
    BY <1>2 DEF InvalidateCodes, SingleUseInv, WellFormed, TypeOK, CallsSound, CallSound, At
  <2>2. r \in codes => r \in gone
    BY <2>1 DEF CodesOf
  <2>3. /\ gone \subseteq codes /\ gone \subseteq Codes
        /\ \A q \in gone : q[2] \in 1..Len(sent)
    BY DEF CodesOf, SingleUseInv, WellFormed, TypeOK, RowsWereSent
  <2>4. \/ codes' = codes \ gone /\ retired' = retired \union gone \union {r}
        \/ codes' = codes /\ retired' = retired
    BY <1>2 DEF InvalidateCodes
  <2>5. UNCHANGED <<sent, blacklist, grants>>
    BY <1>2 DEF InvalidateCodes
  <2>6. /\ codes' \intersect retired' = {}
        /\ \A q \in retired' : q \in Codes => q[2] \in 1..Len(sent')
        /\ retired' \intersect Tokens \subseteq blacklist'
    <3> HIDE DEF r, gone
    <3> QED BY <2>1, <2>2, <2>3, <2>4, <2>5, CredentialShape DEF SingleUseInv, RemovalsHold
  <2>7. \A k \in Handler : call'[k].reused => call'[k].late
    <3>1. PICK c : c = [call[h] EXCEPT !.pc = "invalidated"]
      OBVIOUS
    <3>2. c.reused = call[h].reused /\ c.late = call[h].late
      BY <2>1, <3>1 DEF Calls
    <3>3. Goto(h, c) /\ (c.reused => c.late)
      BY <1>2, <3>1, <3>2 DEF InvalidateCodes, SingleUseInv, RemovalsHold
    <3> QED BY <3>3, CallsHold DEF SingleUseInv
  <2>8. SingleUse'
    BY <2>5 DEF SingleUseInv, SingleUse
  <2> QED BY <2>6, <2>7, <2>8 DEF RemovalsHold
<1>3. ASSUME GenerateLoginResponse(h) PROVE RemovalsHold' /\ SingleUse'
  <2>1. call[h].user \in User /\ NewGrant(h) /\ Goto(h, Idle)
    BY <1>3 DEF GenerateLoginResponse, HandOut, SingleUseInv, WellFormed, CallsSound,
        CallSound, At
  <2>2. SingleUse'
    BY <2>1, NewGrantSingleUse DEF SingleUseInv
  <2>3. \A k \in Handler : call'[k].reused => call'[k].late
    BY <2>1, IdleHolds, CallsHold DEF SingleUseInv
  <2> QED BY <1>3, <2>2, <2>3 DEF GenerateLoginResponse, HandOut, SingleUseInv, RemovalsHold
<1> QED BY <1>1, <1>2, <1>3 DEF CompleteLogin

LEMMA RefreshSessionHolds ==
    ASSUME SingleUseInv, NEW h \in Handler, RefreshSession(h)
    PROVE  RemovalsHold' /\ SingleUse'
<1>1. ASSUME NEW t \in Tokens, CheckRefresh(h, t)
      PROVE  RemovalsHold' /\ SingleUse'
  <2> DEFINE late == Expired(t)
  <2>2. t \in retired => late
    BY <1>1 DEF SingleUseInv, RemovalsHold, CheckRefresh, IsTokenBlacklisted
  <2>3. \A k \in Handler : call'[k].reused => call'[k].late
    <3>1. PICK c : c = Exchanging("checked", Subject(t), t, late)
      OBVIOUS
    <3>2. c.reused => c.late
      <4> HIDE DEF late
      <4> QED BY <2>2, <3>1, ExchangingHolds
    <3>3. Goto(h, c)
      BY <1>1, <3>1 DEF CheckRefresh
    <3> QED BY <3>2, <3>3, CallsHold DEF SingleUseInv
  <2> QED BY <1>1, <2>3 DEF SingleUseInv, RemovalsHold, SingleUse, CheckRefresh
<1>2. ASSUME IssueRefreshed(h) PROVE RemovalsHold' /\ SingleUse'
  <2>1. call[h] \in Calls /\ call[h].user \in User /\ NewGrant(h)
    BY <1>2 DEF IssueRefreshed, SingleUseInv, WellFormed, TypeOK, CallsSound, CallSound, At
  <2>2. SingleUse'
    BY <2>1, NewGrantSingleUse DEF SingleUseInv
  <2>3. \A k \in Handler : call'[k].reused => call'[k].late
    <3>1. PICK c : c = [call[h] EXCEPT !.pc = "issued", !.grant = Len(grants')]
      OBVIOUS
    <3>2. c.reused = call[h].reused /\ c.late = call[h].late
      BY <2>1, <3>1 DEF Calls
    <3>3. Goto(h, c) /\ (c.reused => c.late)
      BY <1>2, <3>1, <3>2 DEF IssueRefreshed, SingleUseInv, RemovalsHold
    <3> QED BY <3>3, CallsHold DEF SingleUseInv
  <2> QED BY <1>2, <2>2, <2>3 DEF IssueRefreshed, SingleUseInv, RemovalsHold
<1>3. ASSUME RetireRefreshed(h) PROVE RemovalsHold' /\ SingleUse'
  <2>1. call[h].cred \in Tokens
    BY <1>3 DEF RetireRefreshed, HandOut, SingleUseInv, WellFormed, CallsSound,
        CallSound, At
  <2>2. \A k \in Handler : call'[k].reused => call'[k].late
    <3>1. Goto(h, Idle) BY <1>3 DEF RetireRefreshed, HandOut
    <3> QED BY <3>1, IdleHolds, CallsHold DEF SingleUseInv
  <2>3. UNCHANGED <<outboxRepo, sent, codes, grants>> /\ codes \subseteq Codes
    BY <1>3 DEF RetireRefreshed, HandOut, SingleUseInv, WellFormed, TypeOK
  <2>4. BlacklistToken(call[h].cred) \/ UNCHANGED <<blacklist, retired>>
    BY <1>3 DEF RetireRefreshed, HandOut
  <2>5. /\ codes' \intersect retired' = {}
        /\ \A r \in retired' : r \in Codes => r[2] \in 1..Len(sent')
        /\ retired' \intersect Tokens \subseteq blacklist'
    BY <2>1, <2>3, <2>4, BlacklistingHolds DEF SingleUseInv, RemovalsHold
  <2>6. SingleUse'
    BY <2>3 DEF SingleUseInv, SingleUse
  <2> QED BY <2>2, <2>5, <2>6 DEF RemovalsHold
<1> QED BY <1>1, <1>2, <1>3, CredentialShape DEF RefreshSession

LEMMA LogOutHolds ==
    ASSUME SingleUseInv, NEW h \in Handler, LogOut(h)
    PROVE  RemovalsHold' /\ SingleUse'
<1>1. ASSUME NEW t \in Bearer, NEW inHeader \in BOOLEAN, NEW all \in BOOLEAN,
             Logout(h, t, inHeader, all)
      PROVE  RemovalsHold' /\ SingleUse'
  <2>1. t \in Tokens
    BY CredentialShape
  <2>2. \A k \in Handler : call'[k].reused => call'[k].late
    <3>1. PICK c : Goto(h, c) /\ (c = Idle \/ c = Acting("loggedOut", Subject(t), NoCred))
      BY <1>1 DEF Logout
    <3>2. c.reused => c.late
      BY <3>1, IdleHolds, ActingHolds
    <3> QED BY <3>1, <3>2, CallsHold DEF SingleUseInv
  <2>3. UNCHANGED <<outboxRepo, sent, codes, grants>> /\ codes \subseteq Codes
    BY <1>1 DEF Logout, SingleUseInv, WellFormed, TypeOK
  <2>4. BlacklistToken(t) \/ UNCHANGED <<blacklist, retired>>
    BY <1>1 DEF Logout
  <2>5. /\ codes' \intersect retired' = {}
        /\ \A r \in retired' : r \in Codes => r[2] \in 1..Len(sent')
        /\ retired' \intersect Tokens \subseteq blacklist'
    BY <2>1, <2>3, <2>4, BlacklistingHolds DEF SingleUseInv, RemovalsHold
  <2>6. SingleUse'
    BY <2>3 DEF SingleUseInv, SingleUse
  <2> QED BY <2>2, <2>5, <2>6 DEF RemovalsHold
<1>2. ASSUME LogoutEverywhere(h) PROVE RemovalsHold' /\ SingleUse'
  <2>1. \A k \in Handler : call'[k].reused => call'[k].late
    <3>1. Goto(h, Idle) BY <1>2 DEF LogoutEverywhere, RevokeAllUserSessions
    <3> QED BY <3>1, IdleHolds, CallsHold DEF SingleUseInv
  <2> QED BY <1>2, <2>1 DEF LogoutEverywhere, RevokeAllUserSessions, SingleUseInv,
      RemovalsHold, SingleUse
<1> QED BY <1>1, <1>2 DEF LogOut

\* No code and no token is spent yet.
LEMMA InitSingleUse == Init => SingleUseInv
<1>1. Init => RemovalsHold
  BY IdleHolds DEF Init, RemovalsHold
<1>2. Init => SingleUse
  BY DEF Init, SingleUse
<1> QED BY <1>1, <1>2, InitWellFormed DEF SingleUseInv

\* Every step keeps it: an action either leaves the history alone or is one of the above.
LEMMA StepSingleUse == SingleUseInv /\ [Next]_vars => SingleUseInv'
<1> SUFFICES ASSUME SingleUseInv, [Next]_vars PROVE RemovalsHold' /\ SingleUse'
  BY StepWellFormed DEF SingleUseInv
<1>1. ASSUME NEW c \in Contact, RequestLogin(c) PROVE RemovalsHold' /\ SingleUse'
  <2>1. sent \in Seq(Contact) /\ sent' = Append(sent, c)
        /\ codes' = codes \union {<<"code", Len(sent) + 1>>}
    BY <1>1 DEF RequestLogin, CreateMagicCode, SingleUseInv, WellFormed, TypeOK
  <2>2. Len(sent') = Len(sent) + 1 /\ Len(sent) \in Nat
    BY <2>1
  <2>3. Len(sent) + 1 \in 1..MaxCodes
    BY <1>1, <2>2, BoundsAssumption DEF RequestLogin, CreateMagicCode
  <2>4. <<"code", Len(sent) + 1>> \notin retired
    BY <2>2, <2>3 DEF SingleUseInv, RemovalsHold, Codes
  <2>5. /\ codes' \intersect retired' = {}
        /\ \A r \in retired' : r \in Codes => r[2] \in 1..Len(sent')
    BY <1>1, <2>1, <2>2, <2>4 DEF RequestLogin, CreateMagicCode, SingleUseInv,
        RemovalsHold
  <2> QED BY <1>1, <2>5 DEF RequestLogin, CreateMagicCode, SingleUseInv, RemovalsHold,
      SingleUse
<1>2. ASSUME NEW h \in Handler, Abandon(h) PROVE RemovalsHold' /\ SingleUse'
  <2>1. \A k \in Handler : call'[k].reused => call'[k].late
    <3>1. Goto(h, Idle) BY <1>2 DEF Abandon
    <3> QED BY <3>1, IdleHolds, CallsHold DEF SingleUseInv
  <2> QED BY <1>2, <2>1 DEF Abandon, SingleUseInv, RemovalsHold, SingleUse
<1>3. ASSUME UNCHANGED <<sent, grants, blacklist, call, retired>>, codes' \subseteq codes
      PROVE  RemovalsHold' /\ SingleUse'
  BY <1>3 DEF SingleUseInv, RemovalsHold, SingleUse
<1>4. ASSUME NEW t \in Bearer, NEW includeCurrent \in BOOLEAN, NEW inHeader \in BOOLEAN,
             RevokeAllSessions(t, includeCurrent, inHeader)
      PROVE  RemovalsHold' /\ SingleUse'
  BY <1>3, <1>4 DEF RevokeAllSessions, RevokeAllUserSessions
<1>5. ASSUME NEW t \in Bearer, NEW g \in 1..MaxGrants, RevokeSession(t, RefreshToken(g))
      PROVE  RemovalsHold' /\ SingleUse'
  BY <1>3, <1>5 DEF RevokeSession, GetSessionByID
<1>6. CASE Time
  BY <1>3, <1>6 DEF Time, ExpireCode, Tick
<1>7. ASSUME NEW task \in AdminTasks, RunAdminCommand(task) PROVE RemovalsHold' /\ SingleUse'
  BY <1>3, <1>7, AdminChanges
<1>8. CASE UNCHANGED vars
  BY <1>3, <1>8 DEF vars
<1> QED BY <1>1, <1>2, <1>4, <1>5, <1>6, <1>7, <1>8,
           CompleteLoginHolds, RefreshSessionHolds, LogOutHolds DEF Next

\* What was spent buys nothing, unless it is presented in the minute of leeway: for any
\* number of handlers, whatever fails, dies or runs in between.
THEOREM SpentIsSpent == Spec => []SingleUse
<1>1. SingleUseInv => SingleUse
  BY DEF SingleUseInv
<1> QED BY <1>1, InitSingleUse, StepSingleUse, PTL DEF Spec

-----------------------------------------------------------------------------

\* ForksBounded is a count.  For a credential: the grants it has bought and clients hold
\* (not counting the minute of leeway), the handlers that could still buy one with it,
\* and those that will although the step that should have removed it failed.
Given(r) == {g \in held : grants[g].from = r /\ ~grants[g].late}
Pending(r) == {h \in Handler : call[h].cred = r /\ ~call[h].late}
Unpaid(r) == {h \in Handler : call[h].cred = r /\ call[h].pc = "invalidated"}

\* Until it is retired, every grant a credential bought, or is about to, has cost a
\* failure.  From then on nobody new can present it, so that grants and handlers with
\* it share one bound.
Account(r) ==
    /\ r \notin retired => Cardinality(Given(r)) + Cardinality(Unpaid(r)) <= failures
    /\ r \in retired =>
          Cardinality(Given(r)) + Cardinality(Pending(r)) <= Cardinality(Handler) + failures

\* A refresh that has made its grant holds a grant made from what was presented to it.
IssuedMatches ==
    \A h \in Handler : At(h, "issued") =>
        /\ grants[call[h].grant].from = call[h].cred
        /\ grants[call[h].grant].late = call[h].late

ForksInv == SingleUseInv /\ IssuedMatches /\ \A r \in Codes \union Tokens : Account(r)

\* What the invariant says of the tables.
LEMMA ForksParts ==
    ASSUME ForksInv
    PROVE  /\ SingleUseInv /\ WellFormed /\ TypeOK /\ IssuedMatches
           /\ failures \in Nat /\ \A h \in Handler : call[h] \in Calls
<1>1. SingleUseInv /\ WellFormed /\ TypeOK /\ IssuedMatches
  BY DEF ForksInv, SingleUseInv, WellFormed
<1>2. failures \in 0..MaxFailures /\ call \in [Handler -> Calls]
  BY <1>1 DEF TypeOK
<1> QED BY <1>1, <1>2, BoundsAssumption

\* What a step may do to the account of a credential.  Most of them at most shrink it.
Keeps(r) ==
    /\ retired \subseteq retired' /\ failures' >= failures
    /\ Given(r)' \subseteq Given(r)
    /\ r \in retired => Pending(r)' \subseteq Pending(r)
    /\ r \notin retired' => Unpaid(r)' \subseteq Unpaid(r)

\* A removal that fails is paid for, and lets its handler go on.
Skips(r, h) ==
    /\ retired' = retired /\ failures' = failures + 1
    /\ Given(r)' \subseteq Given(r)
    /\ Pending(r)' \subseteq Pending(r)
    /\ Unpaid(r)' \subseteq Unpaid(r) \union {h}

\* A handler hands out a grant and is done with the credential: it had been paid for,
\* or it is now, or the credential is retired with the grant.
Gives(r, h, g) ==
    /\ retired \subseteq retired' /\ failures' >= failures
    /\ h \in Pending(r) /\ Pending(r)' \subseteq Pending(r) \ {h}
    /\ Given(r)' \subseteq Given(r) \union {g}
    /\ \/ h \in Unpaid(r) /\ Unpaid(r)' \subseteq Unpaid(r) \ {h}
       \/ failures' = failures + 1 /\ Unpaid(r)' \subseteq Unpaid(r)
       \/ r \in retired'

\* The sizes of finite sets, as the ledger needs them.
LEMMA Sizes ==
    ASSUME NEW S, IsFiniteSet(S)
    PROVE  /\ Cardinality(S) \in Nat
           /\ \A T : T \subseteq S => Cardinality(T) <= Cardinality(S)
           /\ \A T, x : T \subseteq S \union {x} => Cardinality(T) <= Cardinality(S) + 1
           /\ \A T, x : x \in S /\ T \subseteq S \ {x} => Cardinality(T) <= Cardinality(S) - 1
           /\ \A T, x : T \subseteq S \/ T \subseteq S \union {x} =>
                 IsFiniteSet(T) /\ Cardinality(T) \in Nat
<1>1. Cardinality(S) \in Nat
  BY FS_CardinalityType
<1>2. ASSUME NEW T, NEW x, T \subseteq S \union {x}
      PROVE  IsFiniteSet(T) /\ Cardinality(T) \in Nat /\ Cardinality(T) <= Cardinality(S) + 1
  <2>1. IsFiniteSet(S \union {x}) /\ Cardinality(S \union {x}) <= Cardinality(S) + 1
        /\ Cardinality(S \union {x}) \in Nat
    BY <1>1, FS_AddElement
  <2>2. IsFiniteSet(T) /\ Cardinality(T) <= Cardinality(S \union {x})
    BY <2>1, <1>2, FS_Subset
  <2>3. Cardinality(T) \in Nat
    BY <2>2, FS_CardinalityType
  <2> QED BY <1>1, <2>1, <2>2, <2>3
<1>3. ASSUME NEW T, T \subseteq S
      PROVE  IsFiniteSet(T) /\ Cardinality(T) \in Nat /\ Cardinality(T) <= Cardinality(S)
  <2>1. IsFiniteSet(T) /\ Cardinality(T) <= Cardinality(S)
    BY <1>3, FS_Subset
  <2> QED BY <2>1, FS_CardinalityType
<1>4. ASSUME NEW T, NEW x, x \in S, T \subseteq S \ {x}
      PROVE  Cardinality(T) <= Cardinality(S) - 1
  <2>1. IsFiniteSet(S \ {x}) /\ Cardinality(S \ {x}) = Cardinality(S) - 1
    BY <1>4, FS_RemoveElement
  <2>2. IsFiniteSet(T) /\ Cardinality(T) <= Cardinality(S \ {x})
    BY <2>1, <1>4, FS_Subset
  <2> QED BY <2>1, <2>2
<1> QED BY <1>1, <1>2, <1>3, <1>4

\* The sets of the ledger are finite.
LEMMA LedgerFinite ==
    ASSUME WellFormed, NEW r
    PROVE  /\ IsFiniteSet(Handler) /\ Cardinality(Handler) \in Nat
           /\ IsFiniteSet(Given(r)) /\ Cardinality(Given(r)) \in Nat
           /\ IsFiniteSet(Pending(r)) /\ Cardinality(Pending(r)) \in Nat
           /\ Cardinality(Pending(r)) <= Cardinality(Handler)
           /\ IsFiniteSet(Unpaid(r)) /\ Cardinality(Unpaid(r)) \in Nat
           /\ failures \in Nat
<1>1. Given(r) \subseteq 1..Len(grants) /\ Len(grants) \in Nat /\ failures \in Nat
  <2>1. /\ held \subseteq 1..Len(grants) /\ grants \in Seq(Grants)
        /\ failures \in 0..MaxFailures
    BY DEF WellFormed, TypeOK
  <2>2. Given(r) \subseteq held
    BY DEF Given
  <2>3. Len(grants) \in Nat /\ failures \in Nat
    BY <2>1, BoundsAssumption
  <2> QED BY <2>1, <2>2, <2>3
<1>2. IsFiniteSet(1..Len(grants))
  BY <1>1, FS_Interval
<1>3. IsFiniteSet(Given(r)) /\ Cardinality(Given(r)) \in Nat
  BY <1>1, <1>2, FS_Subset, FS_CardinalityType
<1>4. IsFiniteSet(Handler) /\ Cardinality(Handler) \in Nat
  BY HandlerAssumption, FS_CardinalityType
<1>5. Pending(r) \subseteq Handler /\ Unpaid(r) \subseteq Handler
  BY DEF Pending, Unpaid
<1>6. IsFiniteSet(Pending(r)) /\ IsFiniteSet(Unpaid(r))
      /\ Cardinality(Pending(r)) <= Cardinality(Handler)
  BY <1>4, <1>5, FS_Subset
<1> QED BY <1>1, <1>3, <1>4, <1>6, FS_CardinalityType

\* What the ledger's entries are after a step, in terms of those before it.
LEMMA AccountKept ==
    ASSUME WellFormed, WellFormed', NEW r, Account(r), Keeps(r)
    PROVE  Account(r)'
<1>1. /\ Cardinality(Given(r)) \in Nat /\ Cardinality(Pending(r)) \in Nat
      /\ Cardinality(Unpaid(r)) \in Nat /\ failures \in Nat /\ Cardinality(Handler) \in Nat
      /\ IsFiniteSet(Given(r)) /\ IsFiniteSet(Pending(r)) /\ IsFiniteSet(Unpaid(r))
  BY LedgerFinite
<1>2. /\ failures' \in Nat
      /\ Pending(r)' \subseteq Handler
      /\ IsFiniteSet(Handler)
  BY BoundsAssumption, HandlerAssumption DEF WellFormed, TypeOK, Pending
<1>3. Cardinality(Given(r)') \in Nat /\ Cardinality(Given(r)') <= Cardinality(Given(r))
  BY <1>1, Sizes DEF Keeps
<1>4. Cardinality(Pending(r)') \in Nat /\ Cardinality(Pending(r)') <= Cardinality(Handler)
  BY <1>2, Sizes
<1>5. r \in retired => Cardinality(Pending(r)') <= Cardinality(Pending(r))
  BY <1>1, Sizes DEF Keeps
<1>6. r \notin retired' => /\ Cardinality(Unpaid(r)') \in Nat
                           /\ Cardinality(Unpaid(r)') <= Cardinality(Unpaid(r))
  BY <1>1, Sizes DEF Keeps
<1>7. retired \subseteq retired' /\ failures' >= failures
  BY DEF Keeps
<1> QED BY <1>1, <1>2, <1>3, <1>4, <1>5, <1>6, <1>7 DEF Account

\* A failed removal moves one handler to the unpaid ones, against one more failure.
LEMMA AccountSkips ==
    ASSUME WellFormed, WellFormed', NEW r, NEW h, Account(r), Skips(r, h)
    PROVE  Account(r)'
<1>1. /\ Cardinality(Given(r)) \in Nat /\ Cardinality(Pending(r)) \in Nat
      /\ Cardinality(Unpaid(r)) \in Nat /\ failures \in Nat /\ Cardinality(Handler) \in Nat
      /\ IsFiniteSet(Given(r)) /\ IsFiniteSet(Pending(r)) /\ IsFiniteSet(Unpaid(r))
  BY LedgerFinite
<1>2. Cardinality(Given(r)') \in Nat /\ Cardinality(Given(r)') <= Cardinality(Given(r))
  BY <1>1, Sizes DEF Skips
<1>3. Cardinality(Pending(r)') \in Nat /\ Cardinality(Pending(r)') <= Cardinality(Pending(r))
  BY <1>1, Sizes DEF Skips
<1>4. Cardinality(Unpaid(r)') \in Nat /\ Cardinality(Unpaid(r)') <= Cardinality(Unpaid(r)) + 1
  BY <1>1, Sizes DEF Skips
<1>5. retired' = retired /\ failures' = failures + 1
  BY DEF Skips
<1> QED BY <1>1, <1>2, <1>3, <1>4, <1>5 DEF Account

\* A grant handed out replaces the handler, or the failure, that stood for it.
LEMMA AccountGives ==
    ASSUME WellFormed, WellFormed', NEW r, NEW h \in Handler, NEW g, Account(r), Gives(r, h, g)
    PROVE  Account(r)'
<1>1. /\ Cardinality(Given(r)) \in Nat /\ Cardinality(Pending(r)) \in Nat
      /\ Cardinality(Unpaid(r)) \in Nat /\ failures \in Nat /\ Cardinality(Handler) \in Nat
      /\ IsFiniteSet(Given(r)) /\ IsFiniteSet(Pending(r)) /\ IsFiniteSet(Unpaid(r))
      /\ Cardinality(Pending(r)) <= Cardinality(Handler)
  BY LedgerFinite
<1>2. failures' \in Nat /\ failures' >= failures /\ retired \subseteq retired'
  BY BoundsAssumption DEF WellFormed, TypeOK, Gives
<1>3. Cardinality(Given(r)') \in Nat /\ Cardinality(Given(r)') <= Cardinality(Given(r)) + 1
  <2>1. Given(r)' \subseteq Given(r) \union {g}
    BY DEF Gives
  <2> QED BY <1>1, <2>1, Sizes
<1>4. /\ Pending(r)' \subseteq Pending(r) \ {h} /\ h \in Pending(r)
      /\ Pending(r)' \subseteq Pending(r)
  BY DEF Gives
<1>5. Cardinality(Pending(r)') \in Nat
      /\ Cardinality(Pending(r)') <= Cardinality(Pending(r)) - 1
  BY <1>1, <1>4, Sizes
<1>6. r \notin retired' =>
          /\ Cardinality(Unpaid(r)') \in Nat
          /\ \/ Cardinality(Unpaid(r)') <= Cardinality(Unpaid(r)) - 1
             \/ Cardinality(Unpaid(r)') <= Cardinality(Unpaid(r)) /\ failures' = failures + 1
  <2>1. ASSUME h \in Unpaid(r), Unpaid(r)' \subseteq Unpaid(r) \ {h}
        PROVE  /\ Cardinality(Unpaid(r)') \in Nat
               /\ Cardinality(Unpaid(r)') <= Cardinality(Unpaid(r)) - 1
    <3>1. Unpaid(r)' \subseteq Unpaid(r)
      BY <2>1
    <3> QED BY <1>1, <2>1, <3>1, Sizes
  <2>2. ASSUME failures' = failures + 1, Unpaid(r)' \subseteq Unpaid(r)
        PROVE  /\ Cardinality(Unpaid(r)') \in Nat
               /\ Cardinality(Unpaid(r)') <= Cardinality(Unpaid(r))
    BY <1>1, <2>2, Sizes
  <2> QED BY <2>1, <2>2 DEF Gives
<1> QED BY <1>1, <1>2, <1>3, <1>5, <1>6 DEF Account

\* What nobody presented is not a credential.
LEMMA NoCredential == NoCred \notin Codes \union Tokens
BY DEF NoCred, Codes, Tokens

\* The account of a credential when the grants, the responses and the calls stay.
LEMMA UntouchedKeeps ==
    ASSUME UNCHANGED <<held, grants, call>>, retired \subseteq retired',
           failures' >= failures, NEW r
    PROVE  Keeps(r)
BY DEF Keeps, Given, Pending, Unpaid

\* Nor does such a step touch what a refresh has issued.
LEMMA UntouchedMatches ==
    ASSUME IssuedMatches, UNCHANGED <<grants, call>>
    PROVE  IssuedMatches'
BY DEF IssuedMatches, At

\* What moving one call does to the handlers that have a credential.
LEMMA OneHandlerMoves ==
    ASSUME TypeOK, NEW h \in Handler, NEW c, Goto(h, c), NEW r
    PROVE  /\ c.cred # r => /\ Pending(r)' \subseteq Pending(r) \ {h}
                            /\ Unpaid(r)' \subseteq Unpaid(r) \ {h}
           /\ (c.cred = r /\ ~c.late => h \in Pending(r))
                 => Pending(r)' \subseteq Pending(r)
           /\ c.pc # "invalidated" => Unpaid(r)' \subseteq Unpaid(r)
           /\ Unpaid(r)' \subseteq Unpaid(r) \union {h}
<1>1. /\ call'[h] = c
      /\ \A k \in Handler : k # h => call'[k] = call[k]
  BY DEF TypeOK, Goto
<1> QED BY <1>1 DEF Pending, Unpaid

\* What a refresh has issued stays as it is while another call moves.
LEMMA OneHandlerMatches ==
    ASSUME WellFormed, IssuedMatches, NEW h \in Handler, NEW c, Goto(h, c),
           c.pc # "issued", \A g \in 1..Len(grants) : grants'[g] = grants[g]
    PROVE  IssuedMatches'
<1>1. /\ call'[h] = c
      /\ \A k \in Handler : k # h => call'[k] = call[k]
  BY DEF WellFormed, TypeOK, Goto
<1>2. ASSUME NEW k \in Handler, call'[k].pc = "issued"
      PROVE  /\ grants'[call'[k].grant].from = call'[k].cred
             /\ grants'[call'[k].grant].late = call'[k].late
  <2>1. call'[k] = call[k] /\ call[k].pc = "issued"
    BY <1>1, <1>2
  <2>2. call[k].grant \in 1..Len(grants)
    BY <2>1 DEF WellFormed, CallsSound, CallSound
  <2> QED BY <2>1, <2>2 DEF IssuedMatches, At
<1> QED BY <1>2 DEF IssuedMatches, At

\* A call that ends, or only goes on to revoke sessions, keeps no credential.
LEMMA EndedCalls ==
    /\ Idle.cred = NoCred /\ Idle.pc = "idle"
    /\ \A u : /\ Acting("loggedOut", u, NoCred).cred = NoCred
              /\ Acting("loggedOut", u, NoCred).pc = "loggedOut"
BY DEF Idle, Acting

\* A call that ends without a response shrinks the accounts.
LEMMA EndingKeeps ==
    ASSUME WellFormed, NEW h \in Handler, NEW c, Goto(h, c), c.cred = NoCred,
           UNCHANGED <<held, grants>>, retired \subseteq retired', failures' >= failures,
           NEW r \in Codes \union Tokens
    PROVE  Keeps(r)
<1>1. Given(r)' \subseteq Given(r)
  BY DEF Given
<1>2. c.cred # r
  BY NoCredential
<1>3. Pending(r)' \subseteq Pending(r) /\ Unpaid(r)' \subseteq Unpaid(r)
  BY <1>2, OneHandlerMoves DEF WellFormed
<1> QED BY <1>1, <1>3 DEF Keeps

\* A grant is of the credential its handler had, and only of that one.
LEMMA HandedOut ==
    ASSUME TypeOK, NEW g, HandOut(g), NEW r,
           \A k \in 1..Len(grants) : grants'[k] = grants[k]
    PROVE  /\ Given(r)' \subseteq Given(r) \union {g}
           /\ grants'[g].from # r \/ grants'[g].late => Given(r)' \subseteq Given(r)
BY DEF TypeOK, HandOut, Given

\* A code that is still in its row is not retired: presenting it adds nobody late.
LEMMA VerifyCodeAccounts ==
    ASSUME ForksInv, NEW h \in Handler, NEW q \in Codes, VerifyCode(h, q),
           NEW r \in Codes \union Tokens
    PROVE  IssuedMatches' /\ Keeps(r)
<1>1. WellFormed /\ IssuedMatches /\ TypeOK
  BY ForksParts
<1>2. q \notin retired
  BY DEF ForksInv, SingleUseInv, RemovalsHold, VerifyCode, GetValidMagicCode
<1>3. PICK c : c = Exchanging("verified", OwnerOf[sent[q[2]]], q, FALSE)
  OBVIOUS
<1>4. c.cred = q /\ c.pc = "verified" /\ Goto(h, c)
  BY <1>3 DEF Exchanging, Acting, Idle, VerifyCode, GetValidMagicCode
<1>5. UNCHANGED <<held, grants, retired, failures>>
  BY DEF VerifyCode, GetValidMagicCode
<1>6. IssuedMatches'
  BY <1>1, <1>4, <1>5, OneHandlerMatches
<1>7. Given(r)' \subseteq Given(r)
  BY <1>5 DEF Given
<1>8. Unpaid(r)' \subseteq Unpaid(r)
  BY <1>1, <1>4, OneHandlerMoves
<1>9. r \in retired => Pending(r)' \subseteq Pending(r)
  <2>1. r \in retired => c.cred # r
    BY <1>2, <1>4
  <2> QED BY <2>1, <1>1, <1>4, OneHandlerMoves
<1>10. failures' >= failures
  BY <1>1, <1>5, BoundsAssumption DEF TypeOK
<1> QED BY <1>5, <1>6, <1>7, <1>8, <1>9, <1>10 DEF Keeps

\* The removal of the codes retires the one presented, or fails and is paid for.
LEMMA InvalidateAccounts ==
    ASSUME ForksInv, NEW h \in Handler, InvalidateCodes(h), NEW r \in Codes \union Tokens
    PROVE  IssuedMatches' /\ (Keeps(r) \/ Skips(r, h))
<1>1. WellFormed /\ IssuedMatches /\ TypeOK /\ call[h] \in Calls /\ failures \in Nat
  BY ForksParts
<1>2. PICK c : c = [call[h] EXCEPT !.pc = "invalidated"]
  OBVIOUS
<1>3. c.cred = call[h].cred /\ c.late = call[h].late /\ c.pc = "invalidated" /\ Goto(h, c)
  BY <1>1, <1>2 DEF Calls, InvalidateCodes
<1>4. UNCHANGED <<held, grants>>
  BY DEF InvalidateCodes
<1>5. IssuedMatches'
  BY <1>1, <1>3, <1>4, OneHandlerMatches
<1>6. Given(r)' \subseteq Given(r)
  BY <1>4 DEF Given
<1>7. Pending(r)' \subseteq Pending(r)
  <2>1. c.cred = r /\ ~c.late => h \in Pending(r)
    BY <1>3 DEF Pending
  <2> QED BY <2>1, <1>1, <1>3, OneHandlerMoves
<1>8. Unpaid(r)' \subseteq Unpaid(r) \union {h}
  BY <1>1, <1>3, OneHandlerMoves
<1>9. c.cred # r => Unpaid(r)' \subseteq Unpaid(r)
  BY <1>1, <1>3, OneHandlerMoves
<1>10. \/ failures' = failures /\ retired \subseteq retired' /\ c.cred \in retired'
       \/ failures' = failures + 1 /\ retired' = retired
  BY <1>3 DEF InvalidateCodes, Succeeds, Fails
<1>11. CASE failures' = failures /\ retired \subseteq retired' /\ c.cred \in retired'
  <2>1. r \notin retired' => Unpaid(r)' \subseteq Unpaid(r)
    BY <1>9, <1>11
  <2> QED BY <2>1, <1>1, <1>5, <1>6, <1>7, <1>11 DEF Keeps
<1>12. CASE failures' = failures + 1 /\ retired' = retired
  BY <1>5, <1>6, <1>7, <1>8, <1>12 DEF Skips
<1> QED BY <1>10, <1>11, <1>12

\* The response to a login hands out its grant.
LEMMA GenerateAccounts ==
    ASSUME ForksInv, NEW h \in Handler, GenerateLoginResponse(h),
           NEW r \in Codes \union Tokens
    PROVE  IssuedMatches' /\ (Keeps(r) \/ Gives(r, h, Len(grants')))
<1> DEFINE g == Len(grants')
<1>1. WellFormed /\ IssuedMatches /\ TypeOK /\ call[h] \in Calls /\ failures \in Nat
  BY ForksParts
<1>2. /\ NewGrant(h) /\ HandOut(g) /\ Goto(h, Idle) /\ retired' = retired
      /\ call[h].pc = "invalidated" /\ call[h].user \in User
  BY <1>1 DEF GenerateLoginResponse, At, WellFormed, CallsSound, CallSound
<1>3. /\ \A k \in 1..Len(grants) : grants'[k] = grants[k]
      /\ grants'[g].from = call[h].cred /\ grants'[g].late = call[h].late
  BY <1>1, <1>2, NewGrantTyped
<1>4. failures' = failures \/ failures' = failures + 1
  BY <1>2 DEF NewGrant, Succeeds, Fails
<1>5. IssuedMatches'
  BY <1>1, <1>2, <1>3, EndedCalls, OneHandlerMatches
<1>6. /\ Given(r)' \subseteq Given(r) \union {g}
      /\ call[h].cred # r \/ call[h].late => Given(r)' \subseteq Given(r)
  BY <1>1, <1>2, <1>3, HandedOut
<1>7. Pending(r)' \subseteq Pending(r) \ {h} /\ Unpaid(r)' \subseteq Unpaid(r) \ {h}
  BY <1>1, <1>2, EndedCalls, NoCredential, OneHandlerMoves
<1>8. failures' >= failures
  BY <1>1, <1>4
<1>9. CASE call[h].cred # r \/ call[h].late
  BY <1>2, <1>5, <1>6, <1>7, <1>8, <1>9 DEF Keeps
<1>10. CASE call[h].cred = r /\ ~call[h].late
  <2>1. h \in Pending(r) /\ h \in Unpaid(r)
    BY <1>2, <1>10 DEF Pending, Unpaid
  <2> HIDE DEF g
  <2>2. Gives(r, h, g)
    BY <2>1, <1>2, <1>6, <1>7, <1>8 DEF Gives
  <2> QED BY <2>2, <1>5 DEF g
<1> QED BY <1>9, <1>10

\* A retired token verifies only in the minute of leeway.
LEMMA CheckRefreshAccounts ==
    ASSUME ForksInv, NEW h \in Handler, NEW t \in Tokens, CheckRefresh(h, t),
           NEW r \in Codes \union Tokens
    PROVE  IssuedMatches' /\ Keeps(r)
<1>1. WellFormed /\ IssuedMatches /\ TypeOK /\ failures \in Nat
  BY ForksParts
<1> DEFINE late == Expired(t)
<1>2. t \in retired => late
  BY DEF ForksInv, SingleUseInv, RemovalsHold, CheckRefresh, IsTokenBlacklisted
<1>3. PICK c : c = Exchanging("checked", Subject(t), t, late)
  OBVIOUS
<1>4. Goto(h, c) /\ UNCHANGED <<held, grants, retired, failures>>
  BY <1>3 DEF CheckRefresh
<1>5. c.cred = t /\ c.pc = "checked" /\ c.late = late
  <2> HIDE DEF late
  <2> QED BY <1>3 DEF Exchanging, Acting, Idle
<1> HIDE DEF late
<1>6. IssuedMatches'
  BY <1>1, <1>4, <1>5, OneHandlerMatches
<1>7. Given(r)' \subseteq Given(r)
  BY <1>4 DEF Given
<1>8. Unpaid(r)' \subseteq Unpaid(r)
  BY <1>1, <1>4, <1>5, OneHandlerMoves
<1>9. r \in retired => Pending(r)' \subseteq Pending(r)
  <2>1. r \in retired => c.cred # r \/ c.late
    BY <1>2, <1>5
  <2> QED BY <2>1, <1>1, <1>4, OneHandlerMoves
<1> QED BY <1>1, <1>4, <1>6, <1>7, <1>8, <1>9 DEF Keeps

\* A grant no client holds yet is in nobody's account.
LEMMA IssueAccounts ==
    ASSUME ForksInv, NEW h \in Handler, IssueRefreshed(h), NEW r \in Codes \union Tokens
    PROVE  IssuedMatches' /\ Keeps(r)
<1> DEFINE g == Len(grants')
<1>1. WellFormed /\ IssuedMatches /\ TypeOK /\ call[h] \in Calls /\ failures \in Nat
  BY ForksParts
<1>2. /\ NewGrant(h) /\ held' = held /\ retired' = retired
      /\ call[h].pc = "checked" /\ call[h].user \in User
  BY <1>1 DEF IssueRefreshed, At, WellFormed, CallsSound, CallSound
<1>3. /\ \A k \in 1..Len(grants) : grants'[k] = grants[k]
      /\ grants'[g].from = call[h].cred /\ grants'[g].late = call[h].late
  BY <1>1, <1>2, NewGrantTyped
<1>4. failures' >= failures
  BY <1>1, <1>2 DEF NewGrant, Succeeds, Fails
<1>5. PICK c : c = [call[h] EXCEPT !.pc = "issued", !.grant = g]
  OBVIOUS
<1>6. Goto(h, c)
  BY <1>5 DEF IssueRefreshed
<1> HIDE DEF g
<1>7. c.cred = call[h].cred /\ c.late = call[h].late /\ c.pc = "issued" /\ c.grant = g
  BY <1>1, <1>5 DEF Calls
<1>8. /\ call'[h] = c
      /\ \A k \in Handler : k # h => call'[k] = call[k]
  BY <1>1, <1>6 DEF TypeOK, Goto
<1>9. IssuedMatches'
  <2>1. ASSUME NEW k \in Handler, call'[k].pc = "issued", k # h
        PROVE  /\ grants'[call'[k].grant].from = call'[k].cred
               /\ grants'[call'[k].grant].late = call'[k].late
    <3>1. call'[k] = call[k] /\ call[k].pc = "issued"
      BY <1>8, <2>1
    <3>2. call[k].grant \in 1..Len(grants)
      BY <3>1, <1>1 DEF WellFormed, CallsSound, CallSound
    <3> QED BY <3>1, <3>2, <1>1, <1>3 DEF IssuedMatches, At
  <2> QED BY <2>1, <1>3, <1>7, <1>8 DEF IssuedMatches, At
<1>10. Given(r)' \subseteq Given(r)
  BY <1>1, <1>2, <1>3 DEF Given, TypeOK
<1>11. Unpaid(r)' \subseteq Unpaid(r)
  BY <1>1, <1>6, <1>7, OneHandlerMoves
<1>12. Pending(r)' \subseteq Pending(r)
  <2>1. c.cred = r /\ ~c.late => h \in Pending(r)
    BY <1>7 DEF Pending
  <2> QED BY <2>1, <1>1, <1>6, OneHandlerMoves
<1> QED BY <1>2, <1>4, <1>9, <1>10, <1>11, <1>12 DEF Keeps

\* The response to a refresh hands out its grant, whether or not the token is retired.
LEMMA RetireAccounts ==
    ASSUME ForksInv, NEW h \in Handler, RetireRefreshed(h), NEW r \in Codes \union Tokens
    PROVE  IssuedMatches' /\ (Keeps(r) \/ Gives(r, h, call[h].grant))
<1> DEFINE g == call[h].grant
<1>1. WellFormed /\ IssuedMatches /\ TypeOK /\ failures \in Nat
  BY ForksParts
<1>2. HandOut(g) /\ Goto(h, Idle) /\ grants' = grants /\ call[h].pc = "issued"
  BY DEF RetireRefreshed, At
<1>3. grants'[g].from = call[h].cred /\ grants'[g].late = call[h].late
  BY <1>1, <1>2 DEF IssuedMatches, At
<1>4. \/ failures' = failures /\ retired \subseteq retired' /\ call[h].cred \in retired'
      \/ failures' = failures + 1 /\ retired' = retired
  BY DEF RetireRefreshed, BlacklistToken, Succeeds, Fails
<1>5. IssuedMatches'
  BY <1>1, <1>2, EndedCalls, OneHandlerMatches
<1>6. /\ Given(r)' \subseteq Given(r) \union {g}
      /\ call[h].cred # r \/ call[h].late => Given(r)' \subseteq Given(r)
  BY <1>1, <1>2, <1>3, HandedOut
<1>7. Pending(r)' \subseteq Pending(r) \ {h} /\ Unpaid(r)' \subseteq Unpaid(r) \ {h}
  BY <1>1, <1>2, EndedCalls, NoCredential, OneHandlerMoves
<1>8. failures' >= failures /\ retired \subseteq retired'
  BY <1>1, <1>4
<1>9. CASE call[h].cred # r \/ call[h].late
  BY <1>5, <1>6, <1>7, <1>8, <1>9 DEF Keeps
<1>10. CASE call[h].cred = r /\ ~call[h].late
  <2>1. h \in Pending(r)
    BY <1>10 DEF Pending
  <2>2. r \in retired' \/ failures' = failures + 1
    BY <1>4, <1>10
  <2> HIDE DEF g
  <2>3. Gives(r, h, g)
    BY <2>1, <2>2, <1>6, <1>7, <1>8 DEF Gives
  <2> QED BY <2>3, <1>5 DEF g
<1> QED BY <1>9, <1>10

\* Logging out and giving up hand out nothing.
LEMMA LogOutAccounts ==
    ASSUME ForksInv, NEW h \in Handler, LogOut(h) \/ Abandon(h),
           NEW r \in Codes \union Tokens
    PROVE  IssuedMatches' /\ Keeps(r)
<1>1. WellFormed /\ IssuedMatches /\ failures \in Nat
  BY ForksParts
<1>2. PICK c : /\ Goto(h, c)
               /\ c = Idle \/ \E u : c = Acting("loggedOut", u, NoCred)
  BY DEF LogOut, Logout, LogoutEverywhere, RevokeAllUserSessions, Abandon
<1>3. c.cred = NoCred /\ c.pc # "issued"
  BY <1>2, EndedCalls
<1>4. UNCHANGED <<held, grants>> /\ retired \subseteq retired'
  BY DEF LogOut, Logout, BlacklistToken, LogoutEverywhere, RevokeAllUserSessions, Abandon
<1>5. failures' = failures \/ failures' = failures + 1
  BY DEF LogOut, Logout, BlacklistToken, LogoutEverywhere, RevokeAllUserSessions, Abandon,
     Succeeds, Fails
<1>6. failures' >= failures
  BY <1>1, <1>5
<1>7. IssuedMatches'
  BY <1>1, <1>2, <1>3, <1>4, OneHandlerMatches
<1> QED BY <1>1, <1>2, <1>3, <1>4, <1>6, <1>7, EndingKeeps

\* Every step keeps the accounts.
LEMMA StepForks == ForksInv /\ [Next]_vars => ForksInv'
<1> SUFFICES ASSUME ForksInv, [Next]_vars,
                    NEW r \in Codes \union Tokens
             PROVE  IssuedMatches' /\ Account(r)'
  <2>1. ForksInv /\ [Next]_vars => SingleUseInv'
    BY ForksParts, StepSingleUse
  <2>2. SingleUseInv' /\ Codes \union Tokens = {} => IssuedMatches'
    BY DEF SingleUseInv, WellFormed, CallsSound, CallSound, IssuedMatches, At
  <2> QED BY <2>1, <2>2 DEF ForksInv
<1>1. WellFormed /\ WellFormed' /\ Account(r) /\ IssuedMatches /\ failures \in Nat
  <2>1. SingleUseInv'
    BY ForksParts, StepSingleUse
  <2>2. WellFormed'
    BY <2>1 DEF SingleUseInv
  <2>3. Account(r)
    BY DEF ForksInv
  <2> QED BY <2>2, <2>3, ForksParts
<1>2. ASSUME IssuedMatches', Keeps(r) PROVE IssuedMatches' /\ Account(r)'
  BY <1>1, <1>2, AccountKept
<1>3. ASSUME NEW h \in Handler, CompleteLogin(h) PROVE IssuedMatches' /\ Account(r)'
  <2>1. ASSUME NEW q \in Codes, VerifyCode(h, q) PROVE IssuedMatches' /\ Account(r)'
    BY <2>1, <1>2, VerifyCodeAccounts
  <2>2. ASSUME InvalidateCodes(h) PROVE IssuedMatches' /\ Account(r)'
    BY <2>2, <1>1, <1>2, InvalidateAccounts, AccountSkips
  <2>3. ASSUME GenerateLoginResponse(h) PROVE IssuedMatches' /\ Account(r)'
    BY <2>3, <1>1, <1>2, GenerateAccounts, AccountGives
  <2> QED BY <1>3, <2>1, <2>2, <2>3 DEF CompleteLogin
<1>4. ASSUME NEW h \in Handler, RefreshSession(h) PROVE IssuedMatches' /\ Account(r)'
  <2>1. ASSUME NEW t \in Tokens, CheckRefresh(h, t) PROVE IssuedMatches' /\ Account(r)'
    BY <2>1, <1>2, CheckRefreshAccounts
  <2>2. ASSUME IssueRefreshed(h) PROVE IssuedMatches' /\ Account(r)'
    BY <2>2, <1>2, IssueAccounts
  <2>3. ASSUME RetireRefreshed(h) PROVE IssuedMatches' /\ Account(r)'
    BY <2>3, <1>1, <1>2, RetireAccounts, AccountGives
  <2> QED BY <1>4, <2>1, <2>2, <2>3, CredentialShape DEF RefreshSession
<1>5. ASSUME NEW h \in Handler, LogOut(h) \/ Abandon(h) PROVE IssuedMatches' /\ Account(r)'
  BY <1>5, <1>2, LogOutAccounts
<1>6. ASSUME UNCHANGED <<held, grants, call, retired, failures>>
      PROVE  IssuedMatches' /\ Account(r)'
  BY <1>6, <1>1, <1>2, UntouchedKeeps, UntouchedMatches
<1>7. ASSUME NEW c \in Contact, RequestLogin(c) PROVE IssuedMatches' /\ Account(r)'
  BY <1>6, <1>7 DEF RequestLogin, CreateMagicCode
<1>8. ASSUME NEW t \in Bearer, NEW includeCurrent \in BOOLEAN, NEW inHeader \in BOOLEAN,
             RevokeAllSessions(t, includeCurrent, inHeader)
      PROVE  IssuedMatches' /\ Account(r)'
  BY <1>6, <1>8 DEF RevokeAllSessions, RevokeAllUserSessions
<1>9. ASSUME NEW t \in Bearer, NEW g \in 1..MaxGrants, RevokeSession(t, RefreshToken(g))
      PROVE  IssuedMatches' /\ Account(r)'
  BY <1>6, <1>9 DEF RevokeSession, GetSessionByID
<1>10. CASE Time
  BY <1>6, <1>10 DEF Time, ExpireCode, Tick
<1>11. ASSUME NEW task \in AdminTasks, RunAdminCommand(task)
       PROVE  IssuedMatches' /\ Account(r)'
  BY <1>6, <1>11, AdminChanges
<1>12. CASE UNCHANGED vars
  BY <1>6, <1>12 DEF vars
<1> QED BY <1>3, <1>4, <1>5, <1>7, <1>8, <1>9, <1>10, <1>11, <1>12 DEF Next

\* One code or token is exchanged at most once per handler and once more per failure,
\* however logins, refreshes, logouts, crashes and failed removals interleave.
THEOREM ForksAreBounded == Spec => []ForksBounded
<1>1. Init => ForksInv
  <2> SUFFICES ASSUME Init PROVE ForksInv
    OBVIOUS
  <2>1. SingleUseInv
    BY InitSingleUse
  <2>2. IssuedMatches
    BY EndedCalls DEF Init, IssuedMatches, At
  <2>3. ASSUME NEW r \in Codes \union Tokens PROVE Account(r)
    <3>1. Given(r) = {} /\ Unpaid(r) = {} /\ failures = 0 /\ r \notin retired
      BY EndedCalls DEF Init, Given, Unpaid
    <3>2. Cardinality(Given(r)) = 0 /\ Cardinality(Unpaid(r)) = 0
      BY <3>1, FS_EmptySet
    <3> QED BY <3>1, <3>2 DEF Account
  <2> QED BY <2>1, <2>2, <2>3 DEF ForksInv
<1>2. ForksInv => ForksBounded
  <2> SUFFICES ASSUME ForksInv, NEW r \in Codes \union Tokens
               PROVE  Cardinality(Given(r)) <= Cardinality(Handler) + failures
    BY DEF ForksBounded, Given
  <2>1. Account(r) /\ WellFormed
    BY DEF ForksInv, SingleUseInv
  <2>2. /\ Cardinality(Handler) \in Nat /\ Cardinality(Given(r)) \in Nat
        /\ Cardinality(Pending(r)) \in Nat /\ Cardinality(Unpaid(r)) \in Nat
        /\ failures \in Nat
    BY <2>1, LedgerFinite
  <2> QED BY <2>1, <2>2 DEF Account
<1> QED BY <1>1, <1>2, StepForks, PTL DEF Spec

-----------------------------------------------------------------------------

\* The codes that are used, or about to be, without a login on record: those of
\* Unrecorded, and those whose handler has passed the transaction that records it.
Unlogged ==
    {n \in 1..MaxCodes :
        /\ <<"user_logged_in", n>> \notin outbox
        /\ \/ \E g \in 1..Len(grants) : grants[g].from = <<"code", n>>
           \/ \E h \in Handler : At(h, "invalidated") /\ call[h].cred = <<"code", n>>}

\* The codes of recorded logins are gone, with those that were sent before them.
RecordedAreGone ==
    \A n \in 1..Len(sent) : <<"user_logged_in", n>> \in outbox =>
        \A m \in 1..n : sent[m] = sent[n] => <<"code", m>> \notin codes

RecordInv ==
    /\ WellFormed /\ RecordedAreGone
    /\ outboxRepo => Cardinality(Unlogged) <= failures

\* A step that deletes codes at most keeps those of recorded logins gone.
LEMMA GoneStay ==
    ASSUME RecordedAreGone, UNCHANGED <<sent, outbox>>, codes' \subseteq codes
    PROVE  RecordedAreGone'
BY DEF RecordedAreGone

\* The bound holds when no code comes to it, or one together with a failure.
LEMMA BoundHolds ==
    ASSUME RecordInv, UNCHANGED outboxRepo, failures' \in Nat, failures' >= failures,
           NEW n, outboxRepo => \/ Unlogged' \subseteq Unlogged
                                \/ Unlogged' \subseteq Unlogged \union {n} /\ failures' = failures + 1
    PROVE  outboxRepo' => Cardinality(Unlogged') <= failures'
<1> SUFFICES ASSUME outboxRepo PROVE Cardinality(Unlogged') <= failures'
  OBVIOUS
<1>1. IsFiniteSet(Unlogged)
  <2>1. IsFiniteSet(1..MaxCodes)
    BY BoundsAssumption, FS_Interval
  <2>2. Unlogged \subseteq 1..MaxCodes
    BY DEF Unlogged
  <2> QED BY <2>1, <2>2, FS_Subset
<1>2. Cardinality(Unlogged) \in Nat /\ Cardinality(Unlogged) <= failures /\ failures \in Nat
  BY <1>1, FS_CardinalityType, BoundsAssumption DEF RecordInv, WellFormed, TypeOK
<1>3. CASE Unlogged' \subseteq Unlogged
  <2>1. Cardinality(Unlogged') <= Cardinality(Unlogged) /\ Cardinality(Unlogged') \in Nat
    BY <1>1, <1>3, Sizes
  <2> QED BY <1>2, <2>1
<1>4. CASE Unlogged' \subseteq Unlogged \union {n} /\ failures' = failures + 1
  <2>1. Cardinality(Unlogged') <= Cardinality(Unlogged) + 1 /\ Cardinality(Unlogged') \in Nat
    BY <1>1, <1>4, Sizes
  <2> QED BY <1>2, <1>4, <2>1
<1> QED BY <1>3, <1>4

\* A step that removes no event, makes no grant, and brings no handler past that
\* transaction, adds no code.
LEMMA NoneComes ==
    ASSUME outbox \subseteq outbox', UNCHANGED grants,
           \A h \in Handler : At(h, "invalidated")' => UNCHANGED call[h]
    PROVE  Unlogged' \subseteq Unlogged
<1> SUFFICES ASSUME NEW n \in Unlogged' PROVE n \in Unlogged
  OBVIOUS
<1>1. CASE \E h \in Handler : At(h, "invalidated")' /\ call'[h].cred = <<"code", n>>
  BY <1>1 DEF Unlogged, At
<1>2. CASE \E g \in 1..Len(grants') : grants'[g].from = <<"code", n>>
  BY <1>2 DEF Unlogged
<1> QED BY <1>1, <1>2 DEF Unlogged

\* Nor does one that moves a handler elsewhere.
LEMMA MovesElsewhere ==
    ASSUME WellFormed, NEW h \in Handler, NEW c, Goto(h, c), c.pc # "invalidated"
    PROVE  \A k \in Handler : At(k, "invalidated")' => UNCHANGED call[k]
BY DEF WellFormed, TypeOK, Goto, At

\* A new grant was bought with what its handler holds: a code it is already counted
\* for, or a token.
LEMMA GrantComes ==
    ASSUME WellFormed, NEW h \in Handler, call[h].user \in User, NewGrant(h), UNCHANGED outbox,
           At(h, "invalidated") \/ call[h].cred \in Tokens,
           \A k \in Handler : At(k, "invalidated")' => UNCHANGED call[k]
    PROVE  Unlogged' \subseteq Unlogged
<1> SUFFICES ASSUME NEW n \in Unlogged' PROVE n \in Unlogged
  OBVIOUS
<1>1. CASE \E k \in Handler : At(k, "invalidated")' /\ call'[k].cred = <<"code", n>>
  BY <1>1 DEF Unlogged, At
<1>2. ASSUME NEW g \in 1..Len(grants'), grants'[g].from = <<"code", n>> PROVE n \in Unlogged
  <2>1. /\ Len(grants') = Len(grants) + 1 /\ Len(grants) \in Nat
        /\ \A old \in 1..Len(grants) : grants'[old] = grants[old]
        /\ grants'[Len(grants')].from = call[h].cred
    BY NewGrantTyped DEF WellFormed, TypeOK
  <2>2. CASE g \in 1..Len(grants)
    BY <1>2, <2>1, <2>2 DEF Unlogged
  <2>3. CASE g = Len(grants')
    <3>1. call[h].cred = <<"code", n>> /\ n \in 1..MaxCodes
      BY <1>2, <2>1, <2>3 DEF Unlogged
    <3>2. call[h].cred \notin Tokens
      BY <3>1 DEF Tokens
    <3> QED BY <3>1, <3>2 DEF Unlogged
  <2> QED BY <2>1, <2>2, <2>3
<1> QED BY <1>1, <1>2 DEF Unlogged

\* The transaction of a login: either it records the login and removes the code, or
\* it fails and the code comes to the bound together with the failure.
LEMMA InvalidateRecords ==
    ASSUME RecordInv, NEW h \in Handler, InvalidateCodes(h)
    PROVE  RecordedAreGone' /\ (outboxRepo' => Cardinality(Unlogged') <= failures')
<1> DEFINE r == call[h].cred
           gone == CodesOf(sent[r[2]])
<1>1. /\ WellFormed /\ r \in Codes /\ r = <<"code", r[2]>> /\ call[h] \in Calls
      /\ UNCHANGED <<outboxRepo, sent, grants>>
      /\ failures \in Nat
  <2>1. WellFormed /\ r \in Codes /\ call[h] \in Calls
    BY DEF RecordInv, WellFormed, TypeOK, CallsSound, CallSound, InvalidateCodes, At
  <2>2. UNCHANGED <<outboxRepo, sent, grants>> /\ failures \in Nat
    BY <2>1, BoundsAssumption DEF WellFormed, TypeOK, InvalidateCodes
  <2> QED BY <2>1, <2>2, CredentialShape
<1>2. \/ /\ codes' = codes \ gone /\ failures' = failures
         /\ outbox' = IF outboxRepo THEN outbox \union {<<"user_logged_in", r[2]>>} ELSE outbox
      \/ UNCHANGED <<codes, outbox>> /\ failures' = failures + 1
  BY DEF InvalidateCodes, Store, Succeeds, Fails
<1>3. RecordedAreGone'
  <2>1. ASSUME NEW m \in Nat, <<"code", m>> \in codes, sent[m] = sent[r[2]]
        PROVE  <<"code", m>> \in gone
    BY <2>1 DEF CodesOf
  <2>2. ASSUME NEW n \in 1..Len(sent), <<"user_logged_in", n>> \in outbox',
               NEW m \in 1..n, sent[m] = sent[n]
        PROVE  <<"code", m>> \notin codes'
    <3>1. CASE <<"user_logged_in", n>> \in outbox
      BY <1>2, <2>2, <3>1 DEF RecordInv, RecordedAreGone
    <3>2. CASE n = r[2] /\ codes' = codes \ gone
      BY <2>1, <2>2, <3>2
    <3> QED BY <1>2, <2>2, <3>1, <3>2
  <2> QED BY <1>1, <2>2 DEF RecordedAreGone
<1>4. \A k \in Handler : k # h => call'[k] = call[k]
  BY <1>1 DEF InvalidateCodes, Goto, WellFormed, TypeOK
<1>5. call'[h].cred = r
  BY <1>1 DEF InvalidateCodes, Goto, WellFormed, TypeOK, Calls
<1>6. ASSUME NEW n \in Unlogged' PROVE n \in Unlogged \union {r[2]}
  <2>1. CASE \E g \in 1..Len(grants') : grants'[g].from = <<"code", n>>
    BY <1>1, <1>2, <2>1 DEF Unlogged
  <2>2. ASSUME NEW k \in Handler, At(k, "invalidated")', call'[k].cred = <<"code", n>>, k # h
        PROVE  n \in Unlogged
    BY <1>2, <1>4, <2>2 DEF Unlogged, At
  <2>3. CASE call'[h].cred = <<"code", n>>
    BY <1>1, <1>5, <2>3
  <2> QED BY <2>1, <2>2, <2>3 DEF Unlogged
<1>7. outboxRepo /\ failures' # failures + 1 => Unlogged' \subseteq Unlogged
  <2>1. outboxRepo /\ failures' # failures + 1 => r[2] \notin Unlogged'
    BY <1>1, <1>2 DEF Unlogged
  <2> QED BY <1>6, <2>1
<1>8. failures' \in Nat /\ failures' >= failures
  BY <1>1, <1>2
<1>9. outboxRepo => \/ Unlogged' \subseteq Unlogged
                    \/ Unlogged' \subseteq Unlogged \union {r[2]} /\ failures' = failures + 1
  BY <1>6, <1>7
<1> QED BY <1>1, <1>3, <1>8, <1>9, BoundHolds

\* Every step keeps the invariant.
LEMMA StepRecords == RecordInv /\ [Next]_vars => RecordInv'
<1> SUFFICES ASSUME RecordInv, [Next]_vars
             PROVE  RecordedAreGone' /\ (outboxRepo' => Cardinality(Unlogged') <= failures')
  BY StepWellFormed DEF RecordInv
<1>1. WellFormed /\ RecordedAreGone /\ failures \in Nat
  BY BoundsAssumption DEF RecordInv, WellFormed, TypeOK
<1>2. ASSUME UNCHANGED <<outboxRepo, sent, outbox>>, codes' \subseteq codes,
             failures' = failures \/ Fails, Unlogged' \subseteq Unlogged
      PROVE  RecordedAreGone' /\ (outboxRepo' => Cardinality(Unlogged') <= failures')
  BY <1>1, <1>2, GoneStay, BoundHolds DEF Fails
<1>3. ASSUME UNCHANGED <<outboxRepo, sent, outbox, grants>>, codes' \subseteq codes,
             failures' = failures \/ Fails,
             \/ UNCHANGED call
             \/ \E h \in Handler : \E c : Goto(h, c) /\ c.pc # "invalidated"
      PROVE  RecordedAreGone' /\ (outboxRepo' => Cardinality(Unlogged') <= failures')
  <2>1. \A h \in Handler : At(h, "invalidated")' => UNCHANGED call[h]
    BY <1>1, <1>3, MovesElsewhere
  <2> QED BY <1>2, <1>3, <2>1, NoneComes
<1>4. Idle.pc # "invalidated"
  BY DEF Idle
<1>5. ASSUME NEW c \in Contact, RequestLogin(c)
      PROVE  RecordedAreGone' /\ (outboxRepo' => Cardinality(Unlogged') <= failures')
  <2> DEFINE last == Len(sent) + 1
  <2>1. /\ sent \in Seq(Contact) /\ sent' = Append(sent, c)
        /\ codes' = codes \union {<<"code", last>>}
        /\ outbox \subseteq outbox' /\ outbox' \subseteq outbox \union {<<"magic_code_requested", last>>}
        /\ UNCHANGED <<outboxRepo, grants, call, failures>>
    BY <1>1, <1>5 DEF RequestLogin, CreateMagicCode, Store, WellFormed, TypeOK
  <2>2. /\ Len(sent') = last /\ Len(sent) \in Nat /\ last \in 1..MaxCodes
        /\ \A n \in 1..Len(sent) : sent'[n] = sent[n]
    BY <1>5, <2>1, BoundsAssumption DEF RequestLogin
  <2>3. <<"user_logged_in", last>> \notin outbox
    BY <1>1, <2>2 DEF WellFormed, RowsWereSent
  <2>4. ASSUME NEW n \in 1..Len(sent'), <<"user_logged_in", n>> \in outbox',
               NEW m \in 1..n, sent'[m] = sent'[n]
        PROVE  <<"code", m>> \notin codes'
    <3>1. <<"user_logged_in", n>> \in outbox
      BY <2>1, <2>4
    <3>2. n \in 1..Len(sent) /\ m \in 1..Len(sent) /\ m # last
      BY <2>2, <2>3, <3>1
    <3>3. <<"code", m>> \notin codes
      BY <1>1, <2>2, <2>4, <3>1, <3>2 DEF RecordedAreGone
    <3> QED BY <2>1, <3>2, <3>3
  <2>5. Unlogged' \subseteq Unlogged
    BY <2>1, NoneComes DEF At
  <2> QED BY <1>1, <2>1, <2>4, <2>5, BoundHolds DEF RecordedAreGone
<1>6. ASSUME NEW h \in Handler, CompleteLogin(h)
      PROVE  RecordedAreGone' /\ (outboxRepo' => Cardinality(Unlogged') <= failures')
  <2>1. ASSUME NEW r \in Codes, VerifyCode(h, r)
        PROVE  RecordedAreGone' /\ (outboxRepo' => Cardinality(Unlogged') <= failures')
    <3>1. PICK c : c = Exchanging("verified", OwnerOf[sent[r[2]]], r, FALSE)
      OBVIOUS
    <3>2. c.pc # "invalidated"
      BY <3>1 DEF Exchanging, Acting, Idle
    <3> QED BY <1>3, <2>1, <3>1, <3>2 DEF VerifyCode, GetValidMagicCode
  <2>2. ASSUME GenerateLoginResponse(h)
        PROVE  RecordedAreGone' /\ (outboxRepo' => Cardinality(Unlogged') <= failures')
    <3>1. /\ NewGrant(h) /\ Goto(h, Idle) /\ At(h, "invalidated")
          /\ UNCHANGED <<outboxRepo, sent, codes, outbox>>
      BY <2>2 DEF GenerateLoginResponse, HandOut
    <3>2. call[h].user \in User
      BY <1>1, <3>1 DEF WellFormed, CallsSound, CallSound, At
    <3>3. Unlogged' \subseteq Unlogged
      BY <1>1, <1>4, <3>1, <3>2, GrantComes, MovesElsewhere
    <3>4. failures' = failures \/ Fails
      BY <3>1 DEF NewGrant, Succeeds
    <3> QED BY <1>2, <3>1, <3>3, <3>4
  <2> QED BY <1>6, <2>1, <2>2, InvalidateRecords DEF CompleteLogin
<1>7. ASSUME NEW h \in Handler, RefreshSession(h)
      PROVE  RecordedAreGone' /\ (outboxRepo' => Cardinality(Unlogged') <= failures')
  <2>1. ASSUME NEW t \in Tokens, CheckRefresh(h, t)
        PROVE  RecordedAreGone' /\ (outboxRepo' => Cardinality(Unlogged') <= failures')
    <3>1. PICK c : c = Exchanging("checked", Subject(t), t, Expired(t))
      OBVIOUS
    <3>2. c.pc # "invalidated"
      BY <3>1 DEF Exchanging, Acting, Idle
    <3> QED BY <1>3, <2>1, <3>1, <3>2 DEF CheckRefresh
  <2>2. ASSUME IssueRefreshed(h)
        PROVE  RecordedAreGone' /\ (outboxRepo' => Cardinality(Unlogged') <= failures')
    <3>1. /\ NewGrant(h) /\ At(h, "checked")
          /\ UNCHANGED <<outboxRepo, sent, codes, outbox>>
      BY <2>2 DEF IssueRefreshed
    <3>2. call[h] \in Calls /\ call[h].user \in User /\ call[h].cred \in Tokens
      BY <1>1, <3>1 DEF WellFormed, TypeOK, CallsSound, CallSound, At
    <3>3. PICK c : c = [call[h] EXCEPT !.pc = "issued", !.grant = Len(grants')]
      OBVIOUS
    <3>4. c.pc # "invalidated" /\ Goto(h, c)
      BY <2>2, <3>2, <3>3 DEF IssueRefreshed, Calls
    <3>5. Unlogged' \subseteq Unlogged
      BY <1>1, <3>1, <3>2, <3>4, GrantComes, MovesElsewhere
    <3>6. failures' = failures \/ Fails
      BY <3>1 DEF NewGrant, Succeeds
    <3> QED BY <1>2, <3>1, <3>5, <3>6
  <2>3. ASSUME RetireRefreshed(h)
        PROVE  RecordedAreGone' /\ (outboxRepo' => Cardinality(Unlogged') <= failures')
    BY <1>3, <1>4, <2>3 DEF RetireRefreshed, HandOut, BlacklistToken, Succeeds
  <2> QED BY <1>7, <2>1, <2>2, <2>3, CredentialShape DEF RefreshSession
<1>8. ASSUME NEW h \in Handler, LogOut(h) \/ Abandon(h)
      PROVE  RecordedAreGone' /\ (outboxRepo' => Cardinality(Unlogged') <= failures')
  <2>1. ASSUME NEW t, NEW inHeader, NEW all, Logout(h, t, inHeader, all)
        PROVE  RecordedAreGone' /\ (outboxRepo' => Cardinality(Unlogged') <= failures')
    <3>1. PICK c : c = IF all THEN Acting("loggedOut", Subject(t), NoCred) ELSE Idle
      OBVIOUS
    <3>2. c.pc # "invalidated" /\ Goto(h, c)
      BY <2>1, <3>1 DEF Logout, Acting, Idle
    <3> QED BY <1>3, <2>1, <3>2 DEF Logout, BlacklistToken, Succeeds
  <2>2. ASSUME LogoutEverywhere(h) \/ Abandon(h)
        PROVE  RecordedAreGone' /\ (outboxRepo' => Cardinality(Unlogged') <= failures')
    BY <1>3, <1>4, <2>2 DEF LogoutEverywhere, RevokeAllUserSessions, Abandon, Succeeds
  <2> QED BY <1>8, <2>1, <2>2 DEF LogOut
<1>9. ASSUME NEW t, NEW includeCurrent, NEW inHeader, RevokeAllSessions(t, includeCurrent, inHeader)
      PROVE  RecordedAreGone' /\ (outboxRepo' => Cardinality(Unlogged') <= failures')
  BY <1>3, <1>9 DEF RevokeAllSessions, RevokeAllUserSessions
<1>10. ASSUME NEW t, NEW s, RevokeSession(t, s)
       PROVE  RecordedAreGone' /\ (outboxRepo' => Cardinality(Unlogged') <= failures')
  BY <1>3, <1>10 DEF RevokeSession, GetSessionByID
<1>11. CASE Time
  BY <1>3, <1>11 DEF Time, ExpireCode, Tick
<1>12. ASSUME NEW task \in AdminTasks, RunAdminCommand(task)
       PROVE  RecordedAreGone' /\ (outboxRepo' => Cardinality(Unlogged') <= failures')
  BY <1>3, <1>12, AdminChanges
<1>13. CASE UNCHANGED vars
  BY <1>3, <1>13 DEF vars
<1> QED BY <1>5, <1>6, <1>7, <1>8, <1>9, <1>10, <1>11, <1>12, <1>13 DEF Next

\* With or without an outbox, for any handlers and failures: the code of a recorded
\* login is gone for ever, and no more codes buy grants without a record than there
\* were failures, although the login goes on when its record fails.
THEOREM LoginsRecorded == Spec => []LoginsAreRecorded
<1>1. Init => RecordInv
  <2> SUFFICES ASSUME Init PROVE RecordInv
    OBVIOUS
  <2>1. RecordedAreGone
    BY DEF Init, RecordedAreGone
  <2>2. Unlogged = {} /\ failures = 0
    BY EndedCalls DEF Init, Unlogged, At, Idle
  <2>3. Cardinality(Unlogged) = 0
    BY <2>2, FS_EmptySet
  <2> QED BY <2>1, <2>2, <2>3, InitWellFormed DEF RecordInv
<1>2. RecordInv => LoginsAreRecorded
  <2> SUFFICES ASSUME RecordInv, outboxRepo PROVE Cardinality(Unrecorded) <= failures
    BY DEF RecordInv, RecordedAreGone, LoginsAreRecorded
  <2>1. Unrecorded \subseteq Unlogged
    BY BoundsAssumption DEF RecordInv, WellFormed, TypeOK, Unrecorded, Unlogged
  <2>2. IsFiniteSet(Unlogged)
    <3>1. IsFiniteSet(1..MaxCodes)
      BY BoundsAssumption, FS_Interval
    <3>2. Unlogged \subseteq 1..MaxCodes
      BY DEF Unlogged
    <3> QED BY <3>1, <3>2, FS_Subset
  <2>3. /\ Cardinality(Unrecorded) <= Cardinality(Unlogged) /\ Cardinality(Unlogged) <= failures
        /\ Cardinality(Unrecorded) \in Nat /\ Cardinality(Unlogged) \in Nat /\ failures \in Nat
    BY <2>1, <2>2, Sizes, BoundsAssumption DEF RecordInv, WellFormed, TypeOK
  <2> QED BY <2>3
<1> QED BY <1>1, <1>2, StepRecords, PTL DEF Spec
=============================================================================
