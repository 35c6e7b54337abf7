------------------------- MODULE AuthAccountsProofs -------------------------
(***************************************************************************)
(* Proofs about AuthAccounts, for any number of users, identities,         *)
(* providers and handlers: tokens go to owners, and an identity keeps its  *)
(* owner until it is unlinked.                                             *)
(***************************************************************************)
EXTENDS AuthAccounts, TLAPS, FiniteSetTheorems, SequenceTheorems

-----------------------------------------------------------------------------
(* Who owns an identity, and what the calls about it know.                 *)

Shapes ==
    /\ Linked \subseteq Identity
    /\ DOMAIN call = Handler
    /\ DOMAIN owners = Handler

About == {"finding", "byEmail", "updating", "profile", "creating"}

\* Only a call that has come back from the provider is about an identity.
KnowsIdentity ==
    \A h \in Handler :
        /\ call[h].identity \in Identity \union {None}
        /\ call[h].pc \in About => call[h].identity \in Identity

\* It has seen the identity's present owner, if there is one ...
SeesOwner ==
    \A h \in Handler :
        call[h].identity \in Linked => accounts[call[h].identity].user \in owners[h]

\* ... and whom it updates the account for, before it gives him tokens.
DecidedForOwner ==
    \A h \in Handler :
        At(h, "updating") \/ At(h, "profile") => call[h].user \in owners[h]

OwnersInv == Shapes /\ KnowsIdentity /\ SeesOwner /\ DecidedForOwner /\ IssuedToOwner

\* No account changes hands; some may go.
Kept ==
    /\ Linked' \subseteq Linked
    /\ \A x \in Linked' : accounts'[x].user = accounts[x].user

LEMMA StatementsKeep ==
    /\ UNCHANGED accounts => Kept
    /\ \A x : accounts' = SetAccountTokens(x) \/ accounts' = SetAccountProfile(x) => Kept
    /\ \A u, p : DeleteExternalAccountByProvider(u, p) => Kept
<1>1. UNCHANGED accounts => Kept
  BY DEF Kept, Linked
<1>2. ASSUME NEW x, accounts' = SetAccountTokens(x) \/ accounts' = SetAccountProfile(x) PROVE Kept
  BY <1>2 DEF Kept, Linked, SetAccountTokens, SetAccountProfile
<1>3. ASSUME NEW u, NEW p, DeleteExternalAccountByProvider(u, p) PROVE Kept
  BY <1>3 DEF Kept, Linked, DeleteExternalAccountByProvider, DeleteAccounts
<1> QED BY <1>1, <1>2, <1>3

\* QueryRow finds a row only if there is one.
LEMMA FoundIsThere ==
    ASSUME NEW rows, NEW answer, answer \in QueryRow(rows), answer.err = "none"
    PROVE  rows # {}
<1> SUFFICES ASSUME rows = {} PROVE FALSE
  OBVIOUS
<1>1. answer \notin {[err |-> "none", row |-> r] : r \in rows}
  OBVIOUS
<1>2. answer = [err |-> "no rows", row |-> 0] \/ answer = [err |-> "failed", row |-> 0]
  <2>1. CASE failures < MaxFailures
    BY <1>1, <2>1 DEF QueryRow
  <2>2. CASE ~(failures < MaxFailures)
    BY <1>1, <2>2 DEF QueryRow
  <2> QED BY <2>1, <2>2
<1>3. CASE answer = [err |-> "no rows", row |-> 0]
  BY <1>3
<1>4. CASE answer = [err |-> "failed", row |-> 0]
  BY <1>4
<1> QED BY <1>2, <1>3, <1>4

\* A step of one call that links nobody.
LEMMA CallMoves ==
    ASSUME OwnersInv, Kept, UNCHANGED owners, IssuedToOwner', NEW h \in Handler,
           NEW pc, NEW email, NEW phone, NEW provider, NEW state, NEW identity, NEW user,
           Goto(h, Request(pc, email, phone, provider, state, identity, user)),
           identity = None \/ identity = call[h].identity,
           pc \in About => identity \in Identity,
           pc \in {"updating", "profile"} => user \in owners[h]
    PROVE  OwnersInv'
<1>1. /\ DOMAIN call' = Handler
      /\ \A g \in Handler \ {h} : call'[g] = call[g]
      /\ call'[h].pc = pc /\ call'[h].identity = identity /\ call'[h].user = user
  BY DEF OwnersInv, Shapes, Goto, Request
<1>2. Shapes'
  BY <1>1 DEF OwnersInv, Shapes, Kept
<1>3. KnowsIdentity'
  BY <1>1 DEF OwnersInv, KnowsIdentity
<1>4. SeesOwner'
  <2>1. None \notin Linked
    BY RowAssumption DEF OwnersInv, Shapes
  <2>2. ASSUME NEW g \in Handler, call'[g].identity \in Linked'
        PROVE  call'[g].identity = call[g].identity /\ call[g].identity \in Linked
    BY <1>1, <2>1, <2>2 DEF Kept
  <2> QED BY <2>2 DEF OwnersInv, SeesOwner, Kept
<1>5. DecidedForOwner'
  BY <1>1 DEF OwnersInv, DecidedForOwner, At
<1> QED BY <1>2, <1>3, <1>4, <1>5 DEF OwnersInv

\* A step of no call.
LEMMA NoCallMoves ==
    ASSUME OwnersInv, UNCHANGED <<accounts, call, owners, issued>>
    PROVE  OwnersInv'
BY DEF OwnersInv, Shapes, KnowsIdentity, SeesOwner, DecidedForOwner, IssuedToOwner, At, Linked

-----------------------------------------------------------------------------
(* The steps.                                                              *)

LEMMA OwnersStep == ASSUME OwnersInv, [Next]_vars PROVE OwnersInv'
<1>0. OwnersInv /\ None \notin Identity /\ None \notin Linked
  BY RowAssumption DEF OwnersInv, Shapes
<1>a. ASSUME UNCHANGED issued PROVE IssuedToOwner'
  BY <1>0, <1>a DEF OwnersInv, IssuedToOwner
<1>1. ASSUME NEW h \in Handler, NEW e, NEW p, CheckUserExists(h, e, p) PROVE OwnersInv'
  BY <1>0, <1>1, <1>a, StatementsKeep, CallMoves DEF CheckUserExists, tables, history, About
<1>2. ASSUME NEW h \in Handler, Register(h) PROVE OwnersInv'
  BY <1>0, <1>2, <1>a, StatementsKeep, CallMoves DEF Register, Idle, history, About
<1>3. ASSUME NEW h \in Handler, NEW s, GetState(h, s) PROVE OwnersInv'
  BY <1>0, <1>3, <1>a, StatementsKeep, CallMoves DEF GetState, tables, history, About
<1>4. ASSUME NEW h \in Handler, NEW x \in Identity, CompleteUserAuth(h, x) PROVE OwnersInv'
  <2>1. /\ \A g \in Handler \ {h} : call'[g] = call[g] /\ owners'[g] = owners[g]
        /\ call'[h].pc = "finding" /\ call'[h].identity = x
        /\ DOMAIN call' = Handler /\ DOMAIN owners' = Handler
        /\ owners'[h] = IF x \in Linked THEN {accounts[x].user} ELSE {}
    BY <1>0, <1>4 DEF CompleteUserAuth, Goto, Onward, Request, OwnersInv, Shapes
  <2>2. UNCHANGED <<accounts, issued>>
    BY <1>4 DEF CompleteUserAuth, storeVars, tables, history
  <2>3. Shapes' /\ KnowsIdentity' /\ IssuedToOwner'
    BY <1>0, <1>a, <2>1, <2>2 DEF OwnersInv, Shapes, KnowsIdentity, Linked
  <2>4. SeesOwner'
    BY <1>0, <2>1, <2>2 DEF OwnersInv, SeesOwner, Linked
  <2>5. DecidedForOwner'
    BY <1>0, <2>1 DEF OwnersInv, DecidedForOwner, At
  <2> QED BY <2>3, <2>4, <2>5 DEF OwnersInv
<1>5. ASSUME NEW h \in Handler, AuthFails(h) PROVE OwnersInv'
  BY <1>0, <1>5, <1>a, StatementsKeep, CallMoves
     DEF AuthFails, Proceed, Onward, storeVars, tables, history, About
<1>6. ASSUME NEW h \in Handler, FindAccount(h) PROVE OwnersInv'
  <2>1. PICK answer \in GetExternalAccountByProviderUserID(call[h].identity) :
           Goto(h, IF Action(h) = "link" THEN FindForLink(h, answer) ELSE FindForLogin(h, answer))
    BY <1>6 DEF FindAccount
  <2>2. answer.err = "none" => call[h].identity \in Linked
    BY <2>1, FoundIsThere DEF GetExternalAccountByProviderUserID, SelectAccount
  <2>3. UNCHANGED <<accounts, owners, issued>> /\ call[h].identity \in Identity
    BY <1>0, <1>6 DEF FindAccount, tables, history, At, OwnersInv, KnowsIdentity, About
  <2>4. CASE Action(h) = "link"
    <3> DEFINE u == states[call[h].state].user
               another == answer.err = "none" /\ accounts[call[h].identity].user # u
               pc == IF answer.err = "failed" \/ another THEN "deleting"
                     ELSE IF answer.err = "none" THEN "updating" ELSE "creating"
    <3>1. pc \in {"updating", "profile"} => u \in owners[h]
      BY <1>0, <2>2 DEF OwnersInv, SeesOwner
    <3>2. Goto(h, Onward(h, pc, call[h].identity, u))
      BY <2>1, <2>4 DEF FindForLink
    <3> HIDE DEF u, pc
    <3> QED BY <1>0, <1>a, <2>3, <3>1, <3>2, StatementsKeep, CallMoves DEF Onward
  <2>5. CASE Action(h) # "link" /\ answer.err = "none"
    <3>1. accounts[call[h].identity].user \in owners[h]
      BY <1>0, <2>2, <2>5 DEF OwnersInv, SeesOwner
    <3>2. Goto(h, Onward(h, "updating", call[h].identity, accounts[call[h].identity].user))
      BY <2>1, <2>5 DEF FindForLogin
    <3> QED BY <1>0, <1>a, <2>3, <3>1, <3>2, StatementsKeep, CallMoves DEF Onward
  <2>6. CASE Action(h) # "link" /\ answer.err # "none"
    <3>1. PICK pc \in {"byEmail", "deleting"} : Goto(h, Onward(h, pc, call[h].identity, 0))
      BY <2>1, <2>6 DEF FindForLogin
    <3> QED BY <1>0, <1>a, <2>3, <3>1, StatementsKeep, CallMoves DEF Onward
  <2> QED BY <2>4, <2>5, <2>6
<1>7. ASSUME NEW h \in Handler, FindUser(h) PROVE OwnersInv'
  <2>1. PICK pc \in {"creating", "deleting"} :
           \E u : Goto(h, Onward(h, pc, call[h].identity, u))
    BY <1>7 DEF FindUser
  <2>2. UNCHANGED <<accounts, owners, issued>> /\ call[h].identity \in Identity
    BY <1>0, <1>7 DEF FindUser, tables, history, At, OwnersInv, KnowsIdentity, About
  <2> QED BY <1>0, <1>a, <2>1, <2>2, StatementsKeep, CallMoves DEF Onward
<1>8. ASSUME NEW h \in Handler, UpdateTokens(h) PROVE OwnersInv'
  <2>1. Kept /\ UNCHANGED <<owners, issued>>
    BY <1>8, StatementsKeep DEF UpdateTokens, UpdateExternalAccountTokens, history
  <2>2. call[h].identity \in Identity /\ call[h].user \in owners[h]
    BY <1>0, <1>8 DEF UpdateTokens, At, OwnersInv, KnowsIdentity, DecidedForOwner, About
  <2> QED BY <1>0, <1>8, <1>a, <2>1, <2>2, CallMoves DEF UpdateTokens, Proceed, Onward
<1>9. ASSUME NEW h \in Handler, UpdateAccountProfile(h) PROVE OwnersInv'
  <2>1. Kept /\ UNCHANGED owners
    BY <1>9, StatementsKeep DEF UpdateAccountProfile, UpdateExternalAccountProfile
  <2>2. call[h].user \in owners[h]
    BY <1>0, <1>9 DEF UpdateAccountProfile, At, OwnersInv, DecidedForOwner
  <2>3. IssuedToOwner'
    BY <1>0, <1>9, <2>1, <2>2 DEF UpdateAccountProfile, GenerateTokens, OwnersInv, IssuedToOwner
  <2> QED BY <1>0, <1>9, <2>1, <2>3, CallMoves DEF UpdateAccountProfile, Proceed, Onward, About
<1>10. ASSUME NEW h \in Handler, CreateExternalAccount(h) PROVE OwnersInv'
  <2> DEFINE x == call[h].identity
             u == call[h].user
  <2>1. /\ x \in Identity /\ x \notin Linked
        /\ accounts' = [y \in Linked \union {x} |-> IF y = x THEN NewAccount(u) ELSE accounts[y]]
    BY <1>0, <1>10 DEF CreateExternalAccount, InsertAccount, At, OwnersInv, KnowsIdentity, About
  <2>2. /\ Linked' = Linked \union {x} /\ accounts'[x].user = u
        /\ \A y \in Linked : accounts'[y] = accounts[y]
    BY <2>1 DEF Linked, NewAccount
  <2>3. owners' = [k \in Handler |-> IF call[k].identity = x THEN owners[k] \union {u} ELSE owners[k]]
    BY <1>10 DEF CreateExternalAccount, Witness
  <2>4. /\ DOMAIN call' = Handler
        /\ \A g \in Handler : call'[g].identity = call[g].identity
        /\ \A g \in Handler \ {h} : call'[g] = call[g]
        /\ call'[h].pc = "deleting"
    BY <1>0, <1>10 DEF CreateExternalAccount, Proceed, Goto, Onward, Request, OwnersInv, Shapes
  <2> HIDE DEF x, u
  <2>5. Shapes' /\ KnowsIdentity'
    BY <1>0, <2>1, <2>2, <2>3, <2>4 DEF OwnersInv, Shapes, KnowsIdentity, About
  <2>6. SeesOwner'
    BY <1>0, <2>2, <2>3, <2>4 DEF OwnersInv, SeesOwner
  <2>7. DecidedForOwner'
    BY <1>0, <2>3, <2>4 DEF OwnersInv, DecidedForOwner, At
  <2>8. IssuedToOwner'
    BY <1>0, <1>10, <2>3 DEF CreateExternalAccount, GenerateTokens, OwnersInv, IssuedToOwner, x, u
  <2> QED BY <2>5, <2>6, <2>7, <2>8 DEF OwnersInv
<1>11. ASSUME NEW h \in Handler, Refuse(h) PROVE OwnersInv'
  BY <1>0, <1>11, <1>a, StatementsKeep, CallMoves DEF Refuse, Proceed, Onward, tables, history, About
<1>12. ASSUME NEW h \in Handler, DeleteState(h) PROVE OwnersInv'
  BY <1>0, <1>12, <1>a, StatementsKeep, CallMoves DEF DeleteState, Idle, tables, history, About
<1>13. ASSUME NEW h \in Handler, NEW u, NEW p, CheckUnlink(h, u, p) PROVE OwnersInv'
  BY <1>0, <1>13, <1>a, StatementsKeep, CallMoves DEF CheckUnlink, tables, history, About
<1>14. ASSUME NEW h \in Handler, DeleteByProvider(h) PROVE OwnersInv'
  BY <1>0, <1>14, <1>a, StatementsKeep, CallMoves DEF DeleteByProvider, Idle, history, About
<1>15. ASSUME NEW h \in Handler, Abandon(h) PROVE OwnersInv'
  BY <1>0, <1>15, <1>a, StatementsKeep, CallMoves DEF Abandon, Idle, tables, history, About
<1>16. ASSUME NEW h \in Handler, Callback(h) PROVE OwnersInv'
  BY <1>3, <1>4, <1>5, <1>6, <1>7, <1>8, <1>9, <1>10, <1>11, <1>12, <1>16
     DEF Callback, HandleOAuthCallback
<1>17. ASSUME NEW u, \/ \E e \in Email : ChangeContact(u, "email", e)
                     \/ \E p \in Phone : ChangeContact(u, "phone", p)
                     \/ UpdateProfile(u) \/ RequestEmailVerification(u)
                     \/ HandleEmailVerificationRequested(u)
       PROVE  OwnersInv'
  BY <1>0, <1>17, NoCallMoves
     DEF ChangeContact, UpdateProfile, RequestEmailVerification, HandleEmailVerificationRequested,
         storeVars, tables, history
<1>18. CASE \/ \E p \in Provider, u \in 0..MaxUsers : BeginAuth(p, u)
            \/ \E s \in 1..MaxStates : ExpireState(s)
            \/ UNCHANGED vars
  BY <1>0, <1>18, NoCallMoves DEF BeginAuth, ExpireState, vars, storeVars, tables, history
<1> QED BY <1>1, <1>2, <1>13, <1>14, <1>15, <1>16, <1>17, <1>18 DEF Next

-----------------------------------------------------------------------------
(* The theorems.                                                           *)

THEOREM Ownership == Spec => []OwnersInv
<1>1. Init => OwnersInv
  BY DEF Init, StoreInit, Idle, Request, OwnersInv, Shapes, KnowsIdentity, SeesOwner,
         DecidedForOwner, IssuedToOwner, At, About, Linked
<1>2. OwnersInv /\ [Next]_vars => OwnersInv'
  BY OwnersStep
<1> QED BY <1>1, <1>2, PTL DEF Spec

\* Tokens issued for an identity go to a user who owned it during the callback,
\* whatever logins, links and unlinks run between its statements.
THEOREM OwnerGetsTokens == Spec => []IssuedToOwner
<1>1. OwnersInv => IssuedToOwner
  BY DEF OwnersInv
<1> QED BY Ownership, <1>1, PTL

\* No step of any request gives a linked identity to another user.
THEOREM OwnerStays == Spec => NeverReassigned
<1> DEFINE Stays == \A x \in Linked \intersect DOMAIN accounts' : accounts'[x].user = accounts[x].user
<1>1. ASSUME [Next]_vars PROVE Stays
  <2>1. ASSUME Kept PROVE Stays
    BY <2>1 DEF Kept, Linked
  <2>2. ASSUME NEW x, NEW u, InsertAccount(x, u) PROVE Stays
    BY <2>2 DEF InsertAccount, Linked
  <2>3. ASSUME UNCHANGED accounts PROVE Stays
    BY <2>1, <2>3, StatementsKeep
  <2>4. ASSUME NEW h \in Handler, Callback(h) PROVE Stays
    <3>1. CASE CreateExternalAccount(h)
      BY <2>2, <3>1 DEF CreateExternalAccount
    <3>2. CASE UpdateTokens(h) \/ UpdateAccountProfile(h)
      BY <2>1, <2>3, <3>2, StatementsKeep
         DEF UpdateTokens, UpdateExternalAccountTokens, UpdateAccountProfile, UpdateExternalAccountProfile
    <3>3. CASE \/ \E s \in 1..MaxStates : GetState(h, s)
               \/ \E x \in Identity : CompleteUserAuth(h, x)
               \/ AuthFails(h) \/ FindAccount(h) \/ FindUser(h) \/ Refuse(h) \/ DeleteState(h)
      BY <2>3, <3>3 DEF GetState, CompleteUserAuth, AuthFails, FindAccount, FindUser, Refuse,
                        DeleteState, storeVars, tables
    <3> QED BY <2>4, <3>1, <3>2, <3>3 DEF Callback, HandleOAuthCallback
  <2>5. ASSUME NEW h \in Handler,
               \/ \E e \in Email \union {None}, p \in Phone \union {None} : CheckUserExists(h, e, p)
               \/ Register(h)
               \/ \E u \in 1..MaxUsers, p \in Provider : CheckUnlink(h, u, p)
               \/ Abandon(h)
        PROVE  Stays
    BY <2>3, <2>5 DEF CheckUserExists, Register, CheckUnlink, Abandon, tables
  <2>6. ASSUME NEW h \in Handler, DeleteByProvider(h) PROVE Stays
    BY <2>1, <2>6, StatementsKeep DEF DeleteByProvider
  <2>7. ASSUME NEW u, \/ \E e \in Email : ChangeContact(u, "email", e)
                      \/ \E p \in Phone : ChangeContact(u, "phone", p)
                      \/ UpdateProfile(u) \/ RequestEmailVerification(u)
                      \/ HandleEmailVerificationRequested(u)
        PROVE  Stays
    BY <2>3, <2>7 DEF ChangeContact, UpdateProfile, RequestEmailVerification,
                      HandleEmailVerificationRequested, storeVars, tables
  <2>8. CASE \/ \E p \in Provider, u \in 0..MaxUsers : BeginAuth(p, u)
             \/ \E s \in 1..MaxStates : ExpireState(s)
             \/ UNCHANGED vars
    BY <2>3, <2>8 DEF BeginAuth, ExpireState, vars, storeVars, tables
  <2> QED BY <1>1, <2>4, <2>5, <2>6, <2>7, <2>8 DEF Next
<1> QED BY <1>1, PTL DEF Spec, NeverReassigned

-----------------------------------------------------------------------------
(* How often a state is used.                                              *)

Serving == {"fetched", "finding", "byEmail", "updating", "profile", "creating"}

\* The callbacks that may still issue tokens for a state, and those that are about
\* to delete it, by what the calls are.
UsingIn(c, s) == {h \in Handler : c[h].state = s /\ c[h].pc \in Serving}
ClosingIn(c, s) == {h \in Handler : c[h].state = s /\ c[h].pc = "deleting"}
Using(s) == UsingIn(call, s)
Closing(s) == ClosingIn(call, s)

\* A use of a live state is owed its deletion, or a failure paid for it; a state
\* that is gone is used at most by those who have read it.
Tally(s) ==
    /\ uses[s] \in Nat
    /\ s \in live => s \in DOMAIN states /\ uses[s] <= Cardinality(Closing(s)) + failures
    /\ s \notin live => uses[s] + Cardinality(Using(s)) <= Cardinality(Handler) + failures
    /\ s \notin DOMAIN states => uses[s] = 0 /\ Using(s) = {}

TallyInv ==
    /\ DOMAIN call = Handler /\ DOMAIN uses = 1..MaxStates
    /\ states \in Seq(States) /\ failures \in Nat
    /\ \A s \in 1..MaxStates : Tally(s)

LEMMA Counts ==
    ASSUME NEW c, NEW s
    PROVE  /\ IsFiniteSet(UsingIn(c, s)) /\ IsFiniteSet(ClosingIn(c, s))
           /\ Cardinality(UsingIn(c, s)) \in Nat /\ Cardinality(ClosingIn(c, s)) \in Nat
           /\ Cardinality(Handler) \in Nat
           /\ Cardinality(UsingIn(c, s)) + Cardinality(ClosingIn(c, s)) <= Cardinality(Handler)
<1> DEFINE U == UsingIn(c, s)
           C == ClosingIn(c, s)
<1>1. /\ IsFiniteSet(Handler) /\ U \subseteq Handler /\ C \subseteq Handler
      /\ U \union C \subseteq Handler
      /\ U \intersect C = {}
  BY HandlerAssumption DEF UsingIn, ClosingIn, Serving
<1> HIDE DEF U, C
<1>2. /\ IsFiniteSet(U) /\ IsFiniteSet(C) /\ Cardinality(U \union C) <= Cardinality(Handler)
      /\ Cardinality(U) \in Nat /\ Cardinality(C) \in Nat /\ Cardinality(Handler) \in Nat
  BY <1>1, FS_Subset, FS_CardinalityType
<1>3. Cardinality(U \union C) = Cardinality(U) + Cardinality(C)
  BY <1>1, <1>2, FS_Union, FS_EmptySet
<1> QED BY <1>2, <1>3 DEF U, C

\* What the counts of a state become when one call moves.
LEMMA CountsMove ==
    ASSUME NEW c, NEW d, NEW h \in Handler, \A g \in Handler \ {h} : d[g] = c[g], NEW s
    PROVE  /\ (h \in UsingIn(d, s) => h \in UsingIn(c, s))
                => Cardinality(UsingIn(d, s)) <= Cardinality(UsingIn(c, s))
           /\ h \in UsingIn(c, s) /\ h \notin UsingIn(d, s)
                => Cardinality(UsingIn(d, s)) = Cardinality(UsingIn(c, s)) - 1
           /\ (h \in ClosingIn(c, s) => h \in ClosingIn(d, s))
                => Cardinality(ClosingIn(d, s)) >= Cardinality(ClosingIn(c, s))
           /\ h \notin ClosingIn(c, s) /\ h \in ClosingIn(d, s)
                => Cardinality(ClosingIn(d, s)) = Cardinality(ClosingIn(c, s)) + 1
           /\ Cardinality(ClosingIn(d, s)) >= Cardinality(ClosingIn(c, s)) - 1
<1> DEFINE U == UsingIn(c, s)
           V == UsingIn(d, s)
           C == ClosingIn(c, s)
           D == ClosingIn(d, s)
<1>1. /\ IsFiniteSet(U) /\ IsFiniteSet(V) /\ IsFiniteSet(C) /\ IsFiniteSet(D)
      /\ Cardinality(U) \in Nat /\ Cardinality(V) \in Nat
      /\ Cardinality(C) \in Nat /\ Cardinality(D) \in Nat
  BY Counts
<1>2. U \ {h} = V \ {h} /\ C \ {h} = D \ {h}
  BY DEF UsingIn, ClosingIn
<1> HIDE DEF U, V, C, D
<1>3. /\ Cardinality(U \ {h}) = IF h \in U THEN Cardinality(U) - 1 ELSE Cardinality(U)
      /\ Cardinality(V \ {h}) = IF h \in V THEN Cardinality(V) - 1 ELSE Cardinality(V)
      /\ Cardinality(C \ {h}) = IF h \in C THEN Cardinality(C) - 1 ELSE Cardinality(C)
      /\ Cardinality(D \ {h}) = IF h \in D THEN Cardinality(D) - 1 ELSE Cardinality(D)
  BY <1>1, FS_RemoveElement
<1>4. /\ (h \in V => h \in U) => Cardinality(V) <= Cardinality(U)
      /\ h \in U /\ h \notin V => Cardinality(V) = Cardinality(U) - 1
  BY <1>1, <1>2, <1>3
<1>5. /\ (h \in C => h \in D) => Cardinality(D) >= Cardinality(C)
      /\ h \notin C /\ h \in D => Cardinality(D) = Cardinality(C) + 1
      /\ Cardinality(D) >= Cardinality(C) - 1
  <2>1. Cardinality(C \ {h}) = Cardinality(D \ {h})
    BY <1>2
  <2>2. CASE h \in C /\ h \in D
    BY <1>1, <1>3, <2>1, <2>2
  <2>3. CASE h \in C /\ h \notin D
    BY <1>1, <1>3, <2>1, <2>3
  <2>4. CASE h \notin C /\ h \in D
    BY <1>1, <1>3, <2>1, <2>4
  <2>5. CASE h \notin C /\ h \notin D
    BY <1>1, <1>3, <2>1, <2>5
  <2> QED BY <2>2, <2>3, <2>4, <2>5
<1> QED BY <1>4, <1>5 DEF U, V, C, D

\* A step of one call that issues nothing and touches no state's row.
LEMMA CallSteps ==
    ASSUME TallyInv, UNCHANGED <<states, live, uses>>, NEW h \in Handler,
           failures' \in {failures, failures + 1},
           NEW pc, NEW email, NEW phone, NEW provider, NEW state, NEW identity, NEW user,
           Goto(h, Request(pc, email, phone, provider, state, identity, user)),
           pc \in Serving => state \in live \/ (state = call[h].state /\ call[h].pc \in Serving),
           At(h, "deleting") => failures' = failures + 1
    PROVE  TallyInv'
<1>1. /\ DOMAIN call' = Handler
      /\ \A g \in Handler \ {h} : call'[g] = call[g]
      /\ call'[h].pc = pc /\ call'[h].state = state
  BY DEF TallyInv, Goto, Request
<1>2. failures' \in Nat /\ failures' >= failures
  BY DEF TallyInv
<1>3. ASSUME NEW s \in 1..MaxStates PROVE Tally(s)'
  <2>1. Tally(s) /\ failures \in Nat
    BY DEF TallyInv
  <2>2. h \in UsingIn(call', s) => h \in UsingIn(call, s) \/ s \in live
    BY <1>1 DEF UsingIn
  <2>3. Cardinality(UsingIn(call', s)) <= Cardinality(UsingIn(call, s)) \/ s \in live
    BY <1>1, <2>2, CountsMove
  <2>4. Cardinality(ClosingIn(call', s)) + failures' >= Cardinality(ClosingIn(call, s)) + failures
    <3>1. /\ Cardinality(ClosingIn(call', s)) \in Nat /\ Cardinality(ClosingIn(call, s)) \in Nat
          /\ Cardinality(ClosingIn(call', s)) >= Cardinality(ClosingIn(call, s)) - 1
          /\ h \notin ClosingIn(call, s)
                => Cardinality(ClosingIn(call', s)) >= Cardinality(ClosingIn(call, s))
      BY <1>1, Counts, CountsMove
    <3>2. h \in ClosingIn(call, s) => failures' = failures + 1
      BY DEF ClosingIn, At
    <3> QED BY <1>2, <2>1, <3>1, <3>2
  <2>5. UsingIn(call, s) = {} /\ s \notin live => UsingIn(call', s) = {}
    <3>1. \A g \in Handler \ {h} : g \in UsingIn(call', s) => g \in UsingIn(call, s)
      BY <1>1 DEF UsingIn
    <3> QED BY <2>2, <3>1 DEF UsingIn
  <2>6. /\ Cardinality(UsingIn(call', s)) \in Nat /\ Cardinality(UsingIn(call, s)) \in Nat
        /\ Cardinality(ClosingIn(call', s)) \in Nat /\ Cardinality(ClosingIn(call, s)) \in Nat
        /\ Cardinality(Handler) \in Nat
    BY Counts
  <2>7. CASE s \in live
    <3>1. uses[s] <= Cardinality(ClosingIn(call', s)) + failures'
      BY <1>2, <2>1, <2>4, <2>6, <2>7 DEF Tally, Closing
    <3> QED BY <2>1, <2>7, <3>1 DEF Tally, Closing, Using
  <2>8. CASE s \notin live
    <3>1. uses[s] + Cardinality(UsingIn(call', s)) <= Cardinality(Handler) + failures'
      BY <1>2, <2>1, <2>3, <2>6, <2>8 DEF Tally, Using
    <3> QED BY <2>1, <2>5, <2>8, <3>1 DEF Tally, Closing, Using
  <2> QED BY <2>7, <2>8
<1> QED BY <1>1, <1>2, <1>3 DEF TallyInv

\* A step that issues tokens.
LEMMA IssueSteps ==
    ASSUME TallyInv, UNCHANGED <<states, live>>, NEW h \in Handler,
           failures' \in {failures, failures + 1},
           Proceed(h, "deleting"), call[h].pc \in Serving, GenerateTokens(h)
    PROVE  TallyInv'
<1> DEFINE z == call[h].state
<1>1. /\ DOMAIN call' = Handler
      /\ \A g \in Handler \ {h} : call'[g] = call[g]
      /\ call'[h].pc = "deleting" /\ call'[h].state = z
  BY DEF TallyInv, Proceed, Onward, Goto, Request
<1>2. failures' \in Nat /\ failures' >= failures
  BY DEF TallyInv
<1>3. /\ DOMAIN uses' = 1..MaxStates
      /\ \A s \in 1..MaxStates : uses'[s] = IF s = z THEN uses[s] + 1 ELSE uses[s]
  BY DEF TallyInv, GenerateTokens
<1> HIDE DEF z
<1>4. ASSUME NEW s \in 1..MaxStates PROVE Tally(s)'
  <2>1. Tally(s) /\ failures \in Nat
    BY DEF TallyInv
  <2>2. /\ Cardinality(UsingIn(call', s)) \in Nat /\ Cardinality(UsingIn(call, s)) \in Nat
        /\ Cardinality(ClosingIn(call', s)) \in Nat /\ Cardinality(ClosingIn(call, s)) \in Nat
        /\ Cardinality(Handler) \in Nat
    BY Counts
  <2>3. CASE s = z
    <3>1. /\ h \in UsingIn(call, s) /\ h \notin UsingIn(call', s)
          /\ h \notin ClosingIn(call, s) /\ h \in ClosingIn(call', s)
      BY <1>1, <2>3 DEF UsingIn, ClosingIn, Serving, z
    <3>2. /\ Cardinality(UsingIn(call', s)) = Cardinality(UsingIn(call, s)) - 1
          /\ Cardinality(ClosingIn(call', s)) = Cardinality(ClosingIn(call, s)) + 1
      BY <1>1, <3>1, CountsMove
    <3>3. uses'[s] = uses[s] + 1 /\ s \in DOMAIN states
      BY <1>3, <2>1, <2>3, <3>1 DEF Tally, Using
    <3>4. s \in live => uses'[s] <= Cardinality(ClosingIn(call', s)) + failures'
      BY <1>2, <2>1, <2>2, <3>2, <3>3 DEF Tally, Closing
    <3>5. s \notin live => uses'[s] + Cardinality(UsingIn(call', s)) <= Cardinality(Handler) + failures'
      BY <1>2, <2>1, <2>2, <3>2, <3>3 DEF Tally, Using
    <3> QED BY <2>1, <3>3, <3>4, <3>5 DEF Tally, Closing, Using
  <2>4. CASE s # z
    <3>1. UsingIn(call', s) = UsingIn(call, s) /\ ClosingIn(call', s) = ClosingIn(call, s)
      BY <1>1, <2>4 DEF UsingIn, ClosingIn, z
    <3>2. uses'[s] = uses[s]
      BY <1>3, <2>4
    <3> QED BY <1>2, <2>1, <2>2, <3>1, <3>2 DEF Tally, Closing, Using
  <2> QED BY <2>3, <2>4
<1> QED BY <1>1, <1>2, <1>3, <1>4 DEF TallyInv

\* The row of a state goes, with a call that ends or without.
LEMMA StateGoes ==
    ASSUME TallyInv, UNCHANGED <<states, uses>>, failures' = failures, NEW z, live' = live \ {z},
           DOMAIN call' = Handler,
           \A s \in 1..MaxStates : /\ UsingIn(call', s) = UsingIn(call, s)
                                   /\ s # z => ClosingIn(call', s) = ClosingIn(call, s)
    PROVE  TallyInv'
<1>1. ASSUME NEW s \in 1..MaxStates PROVE Tally(s)'
  <2>1. Tally(s) /\ failures \in Nat
    BY DEF TallyInv
  <2>2. CASE s = z
    <3>1. /\ Cardinality(UsingIn(call, s)) \in Nat /\ Cardinality(ClosingIn(call, s)) \in Nat
          /\ Cardinality(Handler) \in Nat
          /\ Cardinality(UsingIn(call, s)) + Cardinality(ClosingIn(call, s)) <= Cardinality(Handler)
      BY Counts
    <3>2. uses[s] + Cardinality(UsingIn(call, s)) <= Cardinality(Handler) + failures
      BY <2>1, <3>1 DEF Tally, Using, Closing
    <3> QED BY <2>1, <2>2, <3>2 DEF Tally, Using
  <2>3. CASE s # z
    BY <2>1, <2>3 DEF Tally, Using, Closing
  <2> QED BY <2>2, <2>3
<1> QED BY <1>1 DEF TallyInv

LEMMA NoUseSteps ==
    ASSUME TallyInv, UNCHANGED <<call, states, live, uses>>, failures' \in {failures, failures + 1}
    PROVE  TallyInv'
<1>1. failures' \in Nat /\ failures' >= failures
  BY DEF TallyInv
<1>2. ASSUME NEW s \in 1..MaxStates PROVE Tally(s)'
  <2>1. Tally(s) /\ failures \in Nat
    BY DEF TallyInv
  <2>2. /\ Cardinality(UsingIn(call, s)) \in Nat /\ Cardinality(ClosingIn(call, s)) \in Nat
        /\ Cardinality(Handler) \in Nat
    BY Counts
  <2> QED BY <1>1, <2>1, <2>2 DEF Tally, Using, Closing
<1> QED BY <1>1, <1>2 DEF TallyInv

LEMMA TallyStep == ASSUME TallyInv, [Next]_vars PROVE TallyInv'
<1> USE DEF Serving, oauth, history, At
<1>1. ASSUME NEW h \in Handler, NEW e, NEW p, CheckUserExists(h, e, p) PROVE TallyInv'
  BY <1>1, CallSteps DEF CheckUserExists, Charge
<1>2. ASSUME NEW h \in Handler, Register(h) PROVE TallyInv'
  <2>1. failures' \in {failures, failures + 1}
    BY <1>2 DEF Register, Succeeds, Fails
  <2> QED BY <1>2, <2>1, CallSteps DEF Register, Idle
<1>3. ASSUME NEW h \in Handler, NEW s, GetState(h, s) PROVE TallyInv'
  <2>1. PICK answer : answer \in GetOAuthState(s) /\ answer.err = "none" /\ Charge(answer)
    BY <1>3 DEF GetState
  <2>2. s \in live
    BY <2>1, FoundIsThere DEF GetOAuthState, SelectState
  <2>3. failures' = failures
    BY <2>1 DEF Charge
  <2>4. /\ Goto(h, Request("fetched", None, None, None, s, None, 0))
        /\ call[h].pc = "idle" /\ UNCHANGED <<states, live, uses>>
    BY <1>3 DEF GetState
  <2> QED BY <2>2, <2>3, <2>4, CallSteps
<1>4. ASSUME NEW h \in Handler, NEW x \in Identity, CompleteUserAuth(h, x) PROVE TallyInv'
  BY <1>4, CallSteps DEF CompleteUserAuth, Onward, storeVars
<1>5. ASSUME NEW h \in Handler, AuthFails(h) PROVE TallyInv'
  BY <1>5, CallSteps DEF AuthFails, Proceed, Onward, storeVars
<1>6. ASSUME NEW h \in Handler, FindAccount(h) PROVE TallyInv'
  <2>1. PICK answer : Charge(answer) /\ Goto(h, IF Action(h) = "link" THEN FindForLink(h, answer)
                                                ELSE FindForLogin(h, answer))
    BY <1>6 DEF FindAccount
  <2>2. \E pc, identity, user : Goto(h, Onward(h, pc, identity, user))
    BY <2>1 DEF FindForLink, FindForLogin
  <2>3. failures' \in {failures, failures + 1}
    BY <2>1 DEF Charge
  <2>4. At(h, "finding") /\ UNCHANGED <<states, live, uses>>
    BY <1>6 DEF FindAccount
  <2> QED BY <2>2, <2>3, <2>4, CallSteps DEF Onward
<1>7. ASSUME NEW h \in Handler, FindUser(h) PROVE TallyInv'
  <2>1. PICK answer : Charge(answer)
    BY <1>7 DEF FindUser
  <2>2. \E pc, identity, user : Goto(h, Onward(h, pc, identity, user))
    BY <1>7 DEF FindUser
  <2>3. failures' \in {failures, failures + 1}
    BY <2>1 DEF Charge
  <2>4. At(h, "byEmail") /\ UNCHANGED <<states, live, uses>>
    BY <1>7 DEF FindUser
  <2> QED BY <2>2, <2>3, <2>4, CallSteps DEF Onward
<1>8. ASSUME NEW h \in Handler, UpdateTokens(h) PROVE TallyInv'
  BY <1>8, CallSteps DEF UpdateTokens, UpdateExternalAccountTokens, Succeeds, Proceed, Onward
<1>9. ASSUME NEW h \in Handler, UpdateAccountProfile(h) PROVE TallyInv'
  <2>1. failures' \in {failures, failures + 1}
    BY <1>9 DEF UpdateAccountProfile, UpdateExternalAccountProfile, Succeeds, Fails
  <2> QED BY <1>9, <2>1, IssueSteps DEF UpdateAccountProfile
<1>10. ASSUME NEW h \in Handler, CreateExternalAccount(h) PROVE TallyInv'
  BY <1>10, IssueSteps DEF CreateExternalAccount
<1>11. ASSUME NEW h \in Handler, Refuse(h) PROVE TallyInv'
  <2>1. failures' \in {failures, failures + 1}
    BY <1>11 DEF Refuse, Succeeds, Fails
  <2> QED BY <1>11, <2>1, CallSteps DEF Refuse, Proceed, Onward
<1>12. ASSUME NEW h \in Handler, DeleteState(h) PROVE TallyInv'
  <2>1. CASE Fails
    <3>1. failures' = failures + 1 /\ failures' # failures
      BY <2>1 DEF Fails, TallyInv
    <3>2. live' = live
      BY <1>12, <3>1 DEF DeleteState, DeleteOAuthState, Succeeds
    <3> QED BY <1>12, <3>1, <3>2, CallSteps DEF DeleteState, Idle
  <2>2. CASE ~Fails
    <3> DEFINE z == call[h].state
    <3>1. live' = live \ {z} /\ failures' = failures /\ UNCHANGED <<states, uses>>
      BY <1>12, <2>2 DEF DeleteState, DeleteOAuthState, DeleteStateRow, Succeeds
    <3>2. /\ DOMAIN call' = Handler /\ call'[h].state = 0 /\ call'[h].pc = "idle"
          /\ \A g \in Handler \ {h} : call'[g] = call[g]
          /\ call[h].pc = "deleting"
      BY <1>12 DEF DeleteState, Goto, Idle, Request, TallyInv
    <3>3. ASSUME NEW s \in 1..MaxStates
          PROVE  /\ UsingIn(call', s) = UsingIn(call, s)
                 /\ s # z => ClosingIn(call', s) = ClosingIn(call, s)
      BY <3>2 DEF UsingIn, ClosingIn
    <3> QED BY <3>1, <3>2, <3>3, StateGoes
  <2> QED BY <2>1, <2>2
<1>13. ASSUME NEW h \in Handler, NEW u, NEW p, CheckUnlink(h, u, p) PROVE TallyInv'
  BY <1>13, CallSteps DEF CheckUnlink, Charge
<1>14. ASSUME NEW h \in Handler, DeleteByProvider(h) PROVE TallyInv'
  <2>1. failures' \in {failures, failures + 1}
    BY <1>14 DEF DeleteByProvider, DeleteExternalAccountByProvider, Succeeds, Fails
  <2> QED BY <1>14, <2>1, CallSteps DEF DeleteByProvider, Idle
<1>15. ASSUME NEW h \in Handler, Abandon(h) PROVE TallyInv'
  BY <1>15, CallSteps DEF Abandon, Idle, Fails
<1>16. ASSUME NEW h \in Handler, Callback(h) PROVE TallyInv'
  BY <1>3, <1>4, <1>5, <1>6, <1>7, <1>8, <1>9, <1>10, <1>11, <1>12, <1>16
     DEF Callback, HandleOAuthCallback
<1>17. ASSUME NEW u, \/ \E e \in Email : ChangeContact(u, "email", e)
                     \/ \E p \in Phone : ChangeContact(u, "phone", p)
                     \/ UpdateProfile(u) \/ RequestEmailVerification(u)
                     \/ HandleEmailVerificationRequested(u)
       PROVE  TallyInv'
  <2>1. failures' \in {failures, failures + 1}
    BY <1>17 DEF ChangeContact, UpdateProfile, UpdateUserProfile, RequestEmailVerification,
                 HandleEmailVerificationRequested, MarkEmailVerified, Succeeds, Fails, storeVars
  <2> QED BY <1>17, <2>1, NoUseSteps
          DEF ChangeContact, UpdateProfile, RequestEmailVerification,
              HandleEmailVerificationRequested, storeVars
<1>18. ASSUME NEW p \in Provider, NEW u \in 0..MaxUsers, BeginAuth(p, u) PROVE TallyInv'
  <2> DEFINE z == Len(states) + 1
             row == [provider |-> p, user |-> u, action |-> IF u = 0 THEN "login" ELSE "link"]
  <2>1. /\ states' = Append(states, row) /\ live' = live \union {z}
        /\ UNCHANGED <<call, uses, failures>>
    BY <1>18 DEF BeginAuth, CreateOAuthState, InsertState
  <2>2. row \in States
    <3>1. u \in Nat
      BY BoundsAssumption
    <3> QED BY <3>1 DEF States
  <2>3. /\ states' \in Seq(States) /\ Len(states') = z /\ Len(states) \in Nat
        /\ DOMAIN states' = 1..z /\ DOMAIN states = 1..Len(states)
    BY <2>1, <2>2, AppendProperties, LenProperties DEF TallyInv
  <2>4. ASSUME NEW s \in 1..MaxStates PROVE Tally(s)'
    <3>1. Tally(s) /\ failures \in Nat
      BY DEF TallyInv
    <3>2. Cardinality(ClosingIn(call, s)) \in Nat
      BY Counts
    <3>3. CASE s = z
      <4>1. uses[s] = 0 /\ s \in live' /\ s \in DOMAIN states'
        BY <2>1, <2>3, <3>1, <3>3 DEF Tally
      <4> QED BY <2>1, <3>1, <3>2, <4>1 DEF Tally, Using, Closing
    <3>4. CASE s # z
      <4>1. (s \in live' <=> s \in live) /\ (s \in DOMAIN states' <=> s \in DOMAIN states)
        BY <2>1, <2>3, <3>4
      <4> QED BY <2>1, <3>1, <4>1 DEF Tally, Using, Closing
    <3> QED BY <3>3, <3>4
  <2> QED BY <2>1, <2>3, <2>4 DEF TallyInv
<1>19. ASSUME NEW s \in 1..MaxStates, ExpireState(s) PROVE TallyInv'
  BY <1>19, StateGoes DEF ExpireState, TallyInv
<1>20. CASE UNCHANGED vars
  BY <1>20, NoUseSteps DEF vars, storeVars
<1> QED BY <1>1, <1>2, <1>13, <1>14, <1>15, <1>16, <1>17, <1>18, <1>19, <1>20 DEF Next

\* One state lets in at most one callback per handler, and one more for each
\* failure: that is how far the late deletion of its row makes it reusable.
THEOREM UsesBounded == Spec => []StateUsesBounded
<1>1. Init => TallyInv
  <2> SUFFICES ASSUME Init PROVE TallyInv
    OBVIOUS
  <2>1. /\ states = <<>> /\ live = {} /\ failures = 0
        /\ call = [h \in Handler |-> Idle] /\ uses = [s \in 1..MaxStates |-> 0]
    BY DEF Init, StoreInit
  <2>2. ASSUME NEW s \in 1..MaxStates PROVE Tally(s)
    <3>1. UsingIn(call, s) = {}
      BY <2>1 DEF UsingIn, Idle, Request, Serving
    <3>2. Cardinality({}) = 0 /\ Cardinality(Handler) \in Nat
      BY Counts, FS_EmptySet
    <3>3. Cardinality(UsingIn(call, s)) = 0 /\ uses[s] = 0 /\ s \notin live
      BY <2>1, <3>1, <3>2
    <3> QED BY <2>1, <3>1, <3>2, <3>3 DEF Tally, Using
  <2> QED BY <2>1, <2>2 DEF TallyInv
<1>2. TallyInv /\ [Next]_vars => TallyInv'
  BY TallyStep
<1>3. TallyInv => StateUsesBounded
  <2> SUFFICES ASSUME TallyInv, NEW s \in 1..MaxStates
               PROVE  uses[s] <= Cardinality(Handler) + failures
    BY DEF StateUsesBounded
  <2>1. Tally(s) /\ failures \in Nat
    BY DEF TallyInv
  <2>2. /\ Cardinality(UsingIn(call, s)) \in Nat /\ Cardinality(ClosingIn(call, s)) \in Nat
        /\ Cardinality(Handler) \in Nat
        /\ Cardinality(UsingIn(call, s)) + Cardinality(ClosingIn(call, s)) <= Cardinality(Handler)
    BY Counts
  <2> QED BY <2>1, <2>2 DEF Tally, Using, Closing
<1> QED BY <1>1, <1>2, <1>3, PTL DEF Spec
=============================================================================
