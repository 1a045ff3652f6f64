---------------------------- MODULE Accounts_proofs ----------------------------
(***************************************************************************)
(* What holds of the users table for any number of accounts and requests:  *)
(* nobody logs in, a replaced password never returns, a request that no    *)
(* other overlapped writes exactly what it is there to write, the links of *)
(* a row are mailed, and an upload that succeeds is stored.                *)
(***************************************************************************)
EXTENDS Accounts, TLAPS

Kinds == {"none"} \cup AuthRequests \cup UserRequests \cup ProfileRequests
PasswordKinds == {"login", "refresh", "changePassword"}

(* A step that begins a request. *)
Start(p, a) == AuthStep(p, a) \/ UserStep(p, a) \/ ProfileStep(p, a)

LEMMA NewUserType == NewUser \in Row
BY DEF NewUser, NoPassword, Row, Named, Password

LEMMA HashType ==
    ASSUME NEW password \in Password
    PROVE  Hash(password) \in Password /\ HashPassword(password) \in Password
BY DEF Hash, HashPassword, Password

LEMMA PlainType ==
    ASSUME NEW p \in Requests
    PROVE  Plain(p) \in Password /\ Hash(Plain(p)) \in Password /\ NoPassword \in Password
BY DEF Plain, Hash, NoPassword, Password, Named

LEMMA HashOfPlain ==
    ASSUME NEW p \in Requests
    PROVE  /\ HashPassword(NoPassword) = NoPassword
           /\ Plain(p) # NoPassword /\ HashPassword(Plain(p)) = [by |-> p, hashes |-> 1]
           /\ Hash(Plain(p)) # NoPassword
           /\ HashPassword(Hash(Plain(p))) = [by |-> p, hashes |-> 2]
<1>1. Plain(p) # NoPassword /\ Hash(Plain(p)) # NoPassword
  BY NoneAssumption DEF Plain, Hash, NoPassword
<1>2. Hash(Plain(p)) = [by |-> p, hashes |-> 1]
  BY DEF Plain, Hash
<1>3. Hash([by |-> p, hashes |-> 1]) = [by |-> p, hashes |-> 2]
  BY DEF Hash
<1>4. QED
  BY <1>1, <1>2, <1>3 DEF HashPassword

LEMMA FoundType ==
    ASSUME TypeOK, NEW a \in Accounts
    PROVE  row[a] \in Row /\ Found(a) \in Row
BY DEF TypeOK, Found, Row, NoPassword, Password, Named

(* The row that a save leaves is a row. *)
LEMMA SavedRowType ==
    ASSUME NEW inRow \in Row, NEW loaded \in Row, NEW entity \in Row
    PROVE  SavedRow(inRow, loaded, entity) \in Row
<1>1. (IF entity.password = NoPassword THEN inRow.password ELSE HashPassword(entity.password))
         \in Password
  BY HashType DEF Row
<1>2. QED
  BY <1>1 DEF SavedRow, SavedColumn, Row

(* A save that reads the row it writes stores its entity, hashed, and leaves    *)
(* the password of the row to an entity without one.                            *)
LEMMA SavedFresh ==
    ASSUME NEW r \in Row, NEW entity \in Row
    PROVE  SavedRow(r, r, entity) =
             [entity EXCEPT !.password = IF entity.password = NoPassword THEN r.password
                                         ELSE HashPassword(entity.password)]
BY DEF SavedRow, SavedColumn, Row

(* Both ways of going on from a step keep the type of the requests. *)
LEMMA AnswerType ==
    ASSUME TypeOK, NEW p \in Requests, NEW kind \in Kinds, NEW a \in Accounts,
           NEW code \in {"200", "400", "500"}, Answer(p, kind, a, code)
    PROVE  req' \in [Requests -> Request]
<1>1. [pc |-> "done", kind |-> kind, account |-> a,
       entity |-> NewUser, loaded |-> NewUser, code |-> code] \in Request
  BY NewUserType DEF Request, Kinds
<1>2. QED
  BY <1>1 DEF Answer, TypeOK

LEMMA SaveType ==
    ASSUME TypeOK, NEW p \in Requests, NEW kind \in Kinds, NEW a \in Accounts,
           NEW pc \in {"insert", "unlink", "load", "mail"}, NEW entity \in Row,
           Save(p, kind, a, pc, entity)
    PROVE  req' \in [Requests -> Request]
<1>1. [pc |-> pc, kind |-> kind, account |-> a,
       entity |-> entity, loaded |-> NewUser, code |-> ""] \in Request
  BY NewUserType DEF Request, Kinds
<1>2. QED
  BY <1>1 DEF Save, TypeOK

LEMMA SavesType ==
    ASSUME TypeOK, NEW p \in Requests, Saves(p)
    PROVE  req' \in [Requests -> Request]
<1>1. req[p].kind \in Kinds /\ req[p].account \in Accounts
  BY DEF TypeOK, Request, Kinds
<1>2. CASE req[p].kind \in Mailing
  BY <1>1, <1>2, SaveType, NewUserType DEF Saves
<1>3. CASE req[p].kind \notin Mailing
  BY <1>1, <1>3, AnswerType DEF Saves
<1>4. QED
  BY <1>2, <1>3

(* What the requests assign to an entity are values of its columns. *)
LEMMA NameableType ==
    ASSUME TypeOK, NEW p \in Requests, NEW a \in Accounts
    PROVE  {row[a].avatar} \cup Nameable(p) \subseteq Named /\ None \in Named
BY DEF TypeOK, Row, Nameable, Named

LEMMA AssignedType ==
    ASSUME NEW r \in Row, NEW p \in Requests, NEW verified \in BOOLEAN, NEW password \in Password,
           NEW avatar \in Named
    PROVE  /\ [r EXCEPT !.refreshToken = p] \in Row
           /\ [r EXCEPT !.verified = TRUE, !.verifyToken = None] \in Row
           /\ [r EXCEPT !.verifyToken = p] \in Row
           /\ [r EXCEPT !.password = password] \in Row
           /\ [r EXCEPT !.resetToken = p] \in Row
           /\ [r EXCEPT !.password = password, !.resetToken = None] \in Row
           /\ [r EXCEPT !.verifyToken = p, !.password = password] \in Row
           /\ [r EXCEPT !.verified = verified, !.password = password, !.bio = p,
                        !.avatar = avatar] \in Row
           /\ [r EXCEPT !.bio = p, !.verified = verified, !.password = password,
                        !.avatar = avatar] \in Row
           /\ [r EXCEPT !.bio = p, !.avatar = avatar] \in Row
           /\ [r EXCEPT !.bio = p] \in Row
           /\ [r EXCEPT !.settings = r.settings \cup {p}] \in Row
           /\ [r EXCEPT !.avatar = p] \in Row
BY DEF Row, Named

(* Whatever its kind, a request begins with an answer or with a row to save, and *)
(* changes nothing else but the uploads.                                         *)
Begins(p, a) ==
    \E kind \in Kinds :
       \/ \E code \in {"200", "400", "500"} : Answer(p, kind, a, code)
       \/ \E pc \in {"insert", "unlink", "load"}, entity \in Row : Save(p, kind, a, pc, entity)

LEMMA StartType ==
    ASSUME TypeOK, NEW p \in Requests, NEW a \in Accounts, Start(p, a)
    PROVE  /\ Idle(p)
           /\ UNCHANGED <<registered, row, mailed, expired, overlapped>>
           /\ files' \subseteq Requests
           /\ Begins(p, a)
<1> USE DEF Kinds, AuthRequests, UserRequests, ProfileRequests
<1>a. files \subseteq Requests
  BY DEF TypeOK
<1>b. row[a] \in Row /\ Found(a) \in Row /\ NewUser \in Row
  BY FoundType, NewUserType
<1>c. Plain(p) \in Password /\ Hash(Plain(p)) \in Password /\ NoPassword \in Password
  BY PlainType
<1>d. \A given \in Requests : PasswordRefused(a, given) \in {"", "400", "500"}
  BY DEF PasswordRefused, ValidatePassword
<1>1. CASE Register(p, a)
  <2>1. [NewUser EXCEPT !.verifyToken = p, !.password = Plain(p)] \in Row
    BY <1>b, <1>c, AssignedType, NameableType
  <2>2. QED
    BY <1>1, <1>a, <2>1 DEF Register, Begins
<1>2. CASE ResendVerificationEmail(p, a)
  <2>1. [Found(a) EXCEPT !.verifyToken = p] \in Row
    BY <1>b, <1>c, AssignedType, NameableType
  <2>2. QED
    BY <1>2, <1>a, <2>1 DEF ResendVerificationEmail, Begins
<1>3. CASE RequestPasswordReset(p, a)
  <2>1. [Found(a) EXCEPT !.resetToken = p] \in Row
    BY <1>b, <1>c, AssignedType, NameableType
  <2>2. QED
    BY <1>3, <1>a, <2>1 DEF RequestPasswordReset, Begins
<1>4. ASSUME NEW given \in Requests, Login(p, a, given)
      PROVE  Idle(p) /\ UNCHANGED <<registered, row, mailed, expired, files, overlapped>>
             /\ Begins(p, a)
  <2>1. [Found(a) EXCEPT !.refreshToken = p] \in Row
    BY <1>b, <1>c, AssignedType, NameableType
  <2> DEFINE refused == IF PasswordRefused(a, given) = "" /\ ~row[a].verified
                        THEN "400" ELSE PasswordRefused(a, given)
  <2>2. refused \in {"", "400", "500"}
    BY <1>d
  <2>3. Idle(p) /\ UNCHANGED <<registered, row, mailed, expired, files, overlapped>>
    BY <1>4 DEF Login
  <2>4. CASE refused # ""
    <3>1. Answer(p, "none", a, refused)
      BY <1>4, <2>4 DEF Login
    <3> HIDE DEF refused
    <3>2. QED
      BY <2>2, <2>3, <2>4, <3>1 DEF Begins
  <2>5. CASE refused = ""
    <3>1. Save(p, "login", a, "load", [Found(a) EXCEPT !.refreshToken = p])
      BY <1>4, <2>5 DEF Login
    <3>2. QED
      BY <2>1, <2>3, <3>1 DEF Begins
  <2>6. QED
    BY <2>4, <2>5
<1>5. ASSUME NEW given \in Requests, ChangePassword(p, a, given)
      PROVE  Idle(p) /\ UNCHANGED <<registered, row, mailed, expired, files, overlapped>>
             /\ Begins(p, a)
  <2>1. [Found(a) EXCEPT !.password = Hash(Plain(p))] \in Row
    BY <1>b, <1>c, AssignedType, NameableType
  <2>2. QED
    BY <1>5, <1>d, <2>1 DEF ChangePassword, Begins
<1>6. ASSUME NEW token \in Requests, Refresh(p, a, token)
      PROVE  Idle(p) /\ UNCHANGED <<registered, row, mailed, expired, files, overlapped>>
             /\ Begins(p, a)
  <2>1. [Found(a) EXCEPT !.refreshToken = p] \in Row
    BY <1>b, <1>c, AssignedType, NameableType
  <2>2. QED
    BY <1>6, <2>1 DEF Refresh, Begins
<1>7. ASSUME NEW token \in Requests, VerifyEmail(p, a, token)
      PROVE  Idle(p) /\ UNCHANGED <<registered, row, mailed, expired, files, overlapped>>
             /\ Begins(p, a)
  <2>1. [Found(a) EXCEPT !.verified = TRUE, !.verifyToken = None] \in Row
    BY <1>b, <1>c, AssignedType, NameableType
  <2>2. QED
    BY <1>7, <2>1 DEF VerifyEmail, Begins
<1>8. ASSUME NEW token \in Requests, ResetPassword(p, a, token)
      PROVE  Idle(p) /\ UNCHANGED <<registered, row, mailed, expired, files, overlapped>>
             /\ Begins(p, a)
  <2>1. [Found(a) EXCEPT !.password = Hash(Plain(p)), !.resetToken = None] \in Row
    BY <1>b, <1>c, AssignedType, NameableType
  <2>2. QED
    BY <1>8, <2>1 DEF ResetPassword, Begins
<1>9. ASSUME NEW verified \in BOOLEAN, NEW avatar \in Nameable(p), Create(p, a, verified, avatar)
      PROVE  Idle(p) /\ UNCHANGED <<registered, row, mailed, expired, files, overlapped>>
             /\ Begins(p, a)
  <2>1. [NewUser EXCEPT !.verified = verified, !.password = Plain(p), !.bio = p,
                        !.avatar = avatar] \in Row
    <3>1. avatar \in Named
      BY <1>9, NameableType
    <3>2. QED
      BY <1>b, <1>c, <3>1, AssignedType
  <2>2. QED
    BY <1>9, <2>1 DEF Create, Begins
<1>10. ASSUME NEW avatar \in {row[a].avatar} \cup Nameable(p), PutProfile(p, a, avatar)
       PROVE  Idle(p) /\ UNCHANGED <<registered, row, mailed, expired, files, overlapped>>
              /\ Begins(p, a)
  <2>1. [Found(a) EXCEPT !.bio = p, !.avatar = avatar] \in Row
    <3>1. avatar \in Named
      BY <1>10, NameableType
    <3>2. QED
      BY <1>b, <1>c, <3>1, AssignedType
  <2>2. QED
    BY <1>10, <1>a, <2>1 DEF PutProfile, Begins
<1>11. CASE PatchProfile(p, a)
  <2>1. [Found(a) EXCEPT !.bio = p] \in Row
    BY <1>b, <1>c, AssignedType, NameableType
  <2>2. QED
    BY <1>11, <1>a, <2>1 DEF PatchProfile, Begins
<1>12. ASSUME NEW verified \in BOOLEAN, NEW password \in {NoPassword, Plain(p)},
              NEW avatar \in {row[a].avatar} \cup Nameable(p),
              PutUser(p, a, verified, password, avatar)
      PROVE  Idle(p) /\ UNCHANGED <<registered, row, mailed, expired, files, overlapped>>
             /\ Begins(p, a)
  <2>1. [Found(a) EXCEPT !.bio = p, !.verified = verified, !.password = password,
                         !.avatar = avatar] \in Row
    <3>1. avatar \in Named
      BY <1>12, NameableType
    <3>2. QED
      BY <1>b, <1>c, <3>1, AssignedType
  <2>2. QED
    BY <1>12, <2>1 DEF PutUser, Begins
<1>13. CASE UpdateSettings(p, a)
  <2>1. [Found(a) EXCEPT !.settings = Found(a).settings \cup {p}] \in Row
    BY <1>b, <1>c, AssignedType, NameableType
  <2>2. QED
    BY <1>13, <1>a, <2>1 DEF UpdateSettings, Begins
<1>14. CASE UploadAvatar(p, a)
  BY <1>14, <1>a, <1>b DEF UploadAvatar, Begins
<1>15. QED
  BY <1>a, <1>1, <1>2, <1>3, <1>4, <1>5, <1>6, <1>7, <1>8, <1>9, <1>10, <1>11, <1>12, <1>13, <1>14
     DEF Start, AuthStep, UserStep, ProfileStep

------------------------------------------------------------------------------
(* Type correctness. *)

LEMMA TypeInit == Init => TypeOK
<1> SUFFICES ASSUME Init PROVE TypeOK
  OBVIOUS
<1>1. [pc : {"idle"}, kind : {"none"}, account : Accounts, entity : {NewUser},
       loaded : {NewUser}, code : {""}] \subseteq Request
  BY NewUserType DEF Request, AuthRequests
<1>2. req \in [Requests -> Request]
  BY <1>1 DEF Init
<1>3. row \in [Accounts -> Row]
  BY NewUserType DEF Init
<1>4. QED
  BY <1>2, <1>3 DEF Init, TypeOK

LEMMA TypeSave ==
    ASSUME TypeOK, NEW p \in Requests, SaveStep(p)
    PROVE  TypeOK'
<1>a. req[p] \in Request /\ req[p].kind \in Kinds /\ req[p].account \in Accounts
      /\ req[p].entity \in Row /\ req[p].loaded \in Row
  BY DEF TypeOK, Request, Kinds
<1>1. CASE UnlinkAvatar(p)
  <2>1. [req[p].entity EXCEPT !.avatar = p] \in Row
    BY <1>a DEF Row, Named
  <2> DEFINE after == [req[p] EXCEPT !.pc = "load", !.entity = [req[p].entity EXCEPT !.avatar = p]]
  <2>2. after \in Request
    BY <1>a, <2>1 DEF Request
  <2>3. req' = [req EXCEPT ![p] = after]
    BY <1>1, <1>a DEF UnlinkAvatar, TypeOK, Request
  <2>4. req' \in [Requests -> Request]
    BY <2>2, <2>3 DEF TypeOK
  <2>5. QED
    BY <1>1, <2>4 DEF UnlinkAvatar, TypeOK
<1>2. CASE Insert(p)
  <2>1. [req[p].entity EXCEPT !.password = HashPassword(req[p].entity.password)] \in Row
    BY <1>a, HashType DEF Row
  <2>2. row' \in [Accounts -> Row]
    BY <1>2, <1>a, <2>1 DEF Insert, TypeOK
  <2>3. req' \in [Requests -> Request]
    BY <1>2, SavesType DEF Insert
  <2>4. QED
    BY <1>2, <1>a, <2>2, <2>3 DEF Insert, TypeOK
<1>3. CASE LoadRow(p)
  <2> DEFINE after == [req[p] EXCEPT !.pc = "write", !.loaded = row[req[p].account]]
  <2>1. after \in Request
    BY <1>a DEF TypeOK, Request
  <2>2. req' = [req EXCEPT ![p] = after]
    BY <1>3, <1>a DEF LoadRow, TypeOK, Request
  <2>3. req' \in [Requests -> Request]
    BY <2>1, <2>2 DEF TypeOK
  <2>4. QED
    BY <1>3, <2>3 DEF LoadRow, TypeOK
<1>4. CASE UpdateRow(p)
  <2>1. SavedRow(row[req[p].account], req[p].loaded, req[p].entity) \in Row
    BY <1>a, SavedRowType DEF TypeOK
  <2>2. row' \in [Accounts -> Row]
    BY <1>4, <1>a, <2>1 DEF UpdateRow, TypeOK
  <2>3. req' \in [Requests -> Request]
    BY <1>4, SavesType DEF UpdateRow
  <2>4. QED
    BY <1>4, <2>2, <2>3 DEF UpdateRow, Holding, TypeOK
<1>5. CASE SaveFails(p)
  BY <1>5, <1>a, AnswerType DEF SaveFails, TypeOK
<1>6. CASE MailSent(p)
  BY <1>6, <1>a, AnswerType DEF MailSent, TypeOK
<1>7. CASE MailFails(p)
  BY <1>7, <1>a, AnswerType DEF MailFails, TypeOK
<1>8. CASE Expire(p)
  BY <1>8 DEF Expire, TypeOK
<1>9. QED
  BY <1>1, <1>2, <1>3, <1>4, <1>5, <1>6, <1>7, <1>8 DEF SaveStep

LEMMA TypeNext == TypeOK /\ [Next]_vars => TypeOK'
<1> SUFFICES ASSUME TypeOK, [Next]_vars PROVE TypeOK'
  OBVIOUS
<1>1. ASSUME NEW p \in Requests, NEW a \in Accounts, Start(p, a) PROVE TypeOK'
  <2>1. req' \in [Requests -> Request]
    BY <1>1, StartType, AnswerType, SaveType DEF Begins
  <2>2. QED
    BY <1>1, <2>1, StartType DEF TypeOK
<1>2. CASE UNCHANGED vars
  BY <1>2 DEF vars, TypeOK
<1>3. QED
  BY <1>1, <1>2, TypeSave DEF Next, Start

(* Every step keeps the table, the requests and the files what they are.         *)
THEOREM TypeCorrect == Spec => []TypeOK
BY TypeInit, TypeNext, PTL DEF Spec

------------------------------------------------------------------------------
(* What a request holds, from its beginning to its end. *)

Running == {"insert", "unlink", "load", "write"}

(* No entity that is to be saved has a refresh token or somebody else's password. *)
Sound(p, kind, entity) ==
    /\ kind \notin PasswordKinds
    /\ entity.refreshToken = None
    /\ entity.password = NoPassword \/ entity.password.by = p

(* The entity of a request that nobody overlapped would be saved as the request   *)
(* is there to do, r being the row.                                               *)
Exact(p, pc, kind, entity, loaded, r) ==
    /\ pc = "unlink" => kind = "avatar" /\ entity = [r EXCEPT !.password = NoPassword]
    /\ pc \in {"load", "write"} => SavedRow(r, r, entity) = Asked(p, kind, entity, r)
    /\ pc = "write" => loaded = r

RowsSound ==
    \A a \in Accounts :
       /\ row[a].refreshToken = None
       /\ a \notin registered => row[a] = NewUser

RequestsSound ==
    \A p \in Requests :
       /\ req[p].pc \in Running => Sound(p, req[p].kind, req[p].entity)
       /\ req[p].pc = "mail" => req[p].kind \notin PasswordKinds
       /\ req[p].pc \in Running \ {"insert"} => req[p].account \in registered
       /\ req[p].code = "200" => req[p].kind \notin PasswordKinds

RequestsExact ==
    \A p \in Requests \ overlapped :
       Exact(p, req[p].pc, req[p].kind, req[p].entity, req[p].loaded, row[req[p].account])

Inv == TypeOK /\ RowsSound /\ RequestsSound

(* An answer sets one request, and leaves the others.                             *)
LEMMA AnswerSets ==
    ASSUME TypeOK, NEW p \in Requests, NEW kind \in Kinds, NEW a \in Accounts,
           NEW code \in {"200", "400", "500"}, Answer(p, kind, a, code)
    PROVE  /\ req'[p].pc = "done" /\ req'[p].kind = kind /\ req'[p].account = a
           /\ req'[p].code = code
           /\ \A q \in Requests : q = p \/ req'[q] = req[q]
BY DEF Answer, TypeOK

(* The links that an entity or a row holds.                                       *)
Links(entity) == {entity.verifyToken, entity.resetToken} \ {None}

(* The entity that a request begins with: sound, exact for the row it found, and  *)
(* with the links of that row or one that the request will mail.                  *)
Held(p, a) ==
    \E kind \in Kinds :
       \/ \E code \in {"200", "400", "500"} :
             Answer(p, kind, a, code) /\ (code = "200" => kind \notin PasswordKinds)
       \/ \E pc \in {"insert", "unlink", "load"}, entity \in Row :
             /\ Save(p, kind, a, pc, entity)
             /\ Sound(p, kind, entity)
             /\ Exact(p, pc, kind, entity, NewUser, row[a])
             /\ \A q \in Links(entity) : q \in Links(row[a]) \/ (q = p /\ kind \in Mailing)
             /\ pc # "insert" => a \in registered

LEMMA StartHolds ==
    ASSUME Inv, NEW p \in Requests, NEW a \in Accounts, Start(p, a)
    PROVE  Held(p, a)
<1> USE DEF Kinds, AuthRequests, UserRequests, ProfileRequests
<1>b. row[a] \in Row /\ Found(a) \in Row /\ NewUser \in Row
  BY FoundType, NewUserType DEF Inv
<1>c. Plain(p) \in Password /\ Hash(Plain(p)) \in Password /\ NoPassword \in Password
  BY PlainType
<1>d. \A given \in Requests : PasswordRefused(a, given) \in {"400", "500"}
  BY <1>b DEF PasswordRefused, ValidatePassword, Found, Row
<1>e. Found(a).refreshToken = None /\ Found(a).password = NoPassword
  BY <1>b DEF Found, Inv, RowsSound, Row
<1>f. row[a].verifyToken # None \/ row[a].resetToken # None => a \in registered
  BY DEF Inv, RowsSound, NewUser
<1>g. {row[a].avatar} \cup Nameable(p) \subseteq Named /\ None \in Named
  BY NameableType DEF Inv
<1>1. CASE Register(p, a)
  <2> DEFINE entity == [NewUser EXCEPT !.verifyToken = p, !.password = Plain(p)]
  <2>1. entity \in Row
    BY <1>b, <1>c, <1>g, AssignedType
  <2>2. Sound(p, "register", entity)
    BY DEF Sound, NewUser, Plain, PasswordKinds
  <2>3. Exact(p, "insert", "register", entity, NewUser, row[a])
    BY DEF Exact
  <2>l. \A q \in Links(entity) : q \in Links(row[a]) \/ (q = p /\ "register" \in Mailing)
    BY DEF Links, Mailing, NewUser
  <2>4. QED
    BY <1>1, <2>1, <2>2, <2>3, <2>l DEF Register, Held, PasswordKinds
<1>2. CASE ResendVerificationEmail(p, a)
  <2> DEFINE entity == [Found(a) EXCEPT !.verifyToken = p]
  <2>1. entity \in Row
    BY <1>b, <1>c, <1>g, AssignedType
  <2>2. Sound(p, "resend", entity)
    BY <1>b, <1>c, <1>e DEF Sound, PasswordKinds, Row
  <2>3. SavedRow(row[a], row[a], entity) = Asked(p, "resend", entity, row[a])
    <3>1. SavedRow(row[a], row[a], entity) =
            [entity EXCEPT !.password = IF entity.password = NoPassword THEN row[a].password
                                        ELSE HashPassword(entity.password)]
      BY <1>b, <2>1, SavedFresh
    <3>2. QED
      BY <1>b, <1>c, <3>1 DEF Asked, Found, Row, HashPassword
  <2>4. Exact(p, "load", "resend", entity, NewUser, row[a])
    BY <2>3 DEF Exact
  <2>l. \A q \in Links(entity) : q \in Links(row[a]) \/ (q = p /\ "resend" \in Mailing)
    BY <1>b DEF Links, Mailing, Found, Row
  <2> HIDE DEF entity
  <2>5. Idle(p)  /\ (Answer(p, "none", a, "400") \/ Answer(p, "none", a, "200")
                     \/ (a \in registered /\ Save(p, "resend", a, "load", entity)))
    BY <1>2, <1>f, NoneAssumption DEF entity, ResendVerificationEmail
  <2>6. QED
    BY <2>1, <2>2, <2>4, <2>5, <2>l DEF Held, PasswordKinds
<1>3. CASE RequestPasswordReset(p, a)
  <2> DEFINE entity == [Found(a) EXCEPT !.resetToken = p]
  <2>1. entity \in Row
    BY <1>b, <1>c, <1>g, AssignedType
  <2>2. Sound(p, "forgot", entity)
    BY <1>b, <1>c, <1>e DEF Sound, PasswordKinds, Row
  <2>3. SavedRow(row[a], row[a], entity) = Asked(p, "forgot", entity, row[a])
    <3>1. SavedRow(row[a], row[a], entity) =
            [entity EXCEPT !.password = IF entity.password = NoPassword THEN row[a].password
                                        ELSE HashPassword(entity.password)]
      BY <1>b, <2>1, SavedFresh
    <3>2. QED
      BY <1>b, <1>c, <3>1 DEF Asked, Found, Row, HashPassword
  <2>4. Exact(p, "load", "forgot", entity, NewUser, row[a])
    BY <2>3 DEF Exact
  <2>l. \A q \in Links(entity) : q \in Links(row[a]) \/ (q = p /\ "forgot" \in Mailing)
    BY <1>b DEF Links, Mailing, Found, Row
  <2> HIDE DEF entity
  <2>5. Idle(p)  /\ (Answer(p, "none", a, "400") \/ Answer(p, "none", a, "200")
                     \/ (a \in registered /\ Save(p, "forgot", a, "load", entity)))
    BY <1>3, <1>f, NoneAssumption DEF entity, RequestPasswordReset
  <2>6. QED
    BY <2>1, <2>2, <2>4, <2>5, <2>l DEF Held, PasswordKinds
<1>4. ASSUME NEW given \in Requests, Login(p, a, given) \/ ChangePassword(p, a, given)
      PROVE  Held(p, a)
  <2> DEFINE refused == IF PasswordRefused(a, given) = "" /\ ~row[a].verified
                        THEN "400" ELSE PasswordRefused(a, given)
  <2>1. refused = PasswordRefused(a, given) /\ refused \in {"400", "500"}
    BY <1>d
  <2>2. Answer(p, "none", a, refused)
    BY <1>4, <2>1 DEF Login, ChangePassword
  <2> HIDE DEF refused
  <2>3. QED
    BY <2>1, <2>2 DEF Held
<1>5. ASSUME NEW token \in Requests, Refresh(p, a, token)
      PROVE  Held(p, a)
  <2>1. row[a].refreshToken # token
    BY NoneAssumption DEF Inv, RowsSound
  <2>2. Answer(p, "none", a, "400")
    BY <1>5, <2>1 DEF Refresh
  <2>3. QED
    BY <2>2 DEF Held
<1>6. ASSUME NEW token \in Requests, VerifyEmail(p, a, token)
      PROVE  Held(p, a)
  <2> DEFINE entity == [Found(a) EXCEPT !.verified = TRUE, !.verifyToken = None]
  <2>1. entity \in Row
    BY <1>b, <1>c, <1>g, AssignedType
  <2>2. Sound(p, "verify", entity)
    BY <1>b, <1>c, <1>e DEF Sound, PasswordKinds, Row
  <2>3. SavedRow(row[a], row[a], entity) = Asked(p, "verify", entity, row[a])
    <3>1. SavedRow(row[a], row[a], entity) =
            [entity EXCEPT !.password = IF entity.password = NoPassword THEN row[a].password
                                        ELSE HashPassword(entity.password)]
      BY <1>b, <2>1, SavedFresh
    <3>2. QED
      BY <1>b, <1>c, <3>1 DEF Asked, Found, Row, HashPassword
  <2>4. Exact(p, "load", "verify", entity, NewUser, row[a])
    BY <2>3 DEF Exact
  <2>l. \A q \in Links(entity) : q \in Links(row[a]) \/ (q = p /\ "verify" \in Mailing)
    BY <1>b DEF Links, Mailing, Found, Row
  <2> HIDE DEF entity
  <2>5. Idle(p)  /\ (Answer(p, "none", a, "400") \/ Answer(p, "none", a, "200")
                     \/ (a \in registered /\ Save(p, "verify", a, "load", entity)))
    BY <1>6, <1>f, NoneAssumption DEF entity, VerifyEmail
  <2>6. QED
    BY <2>1, <2>2, <2>4, <2>5, <2>l DEF Held, PasswordKinds
<1>7. ASSUME NEW token \in Requests, ResetPassword(p, a, token)
      PROVE  Held(p, a)
  <2> DEFINE entity == [Found(a) EXCEPT !.password = Hash(Plain(p)), !.resetToken = None]
  <2>1. entity \in Row
    BY <1>b, <1>c, <1>g, AssignedType
  <2>2. Sound(p, "reset", entity)
    BY <1>b, <1>c, <1>e DEF Sound, PasswordKinds, Row, Hash, Plain, NoPassword
  <2>3. SavedRow(row[a], row[a], entity) = Asked(p, "reset", entity, row[a])
    <3>1. SavedRow(row[a], row[a], entity) =
            [entity EXCEPT !.password = IF entity.password = NoPassword THEN row[a].password
                                        ELSE HashPassword(entity.password)]
      BY <1>b, <2>1, SavedFresh
    <3>2. entity.password = Hash(Plain(p)) /\ entity.resetToken = None
      BY <1>b DEF Row
    <3>3. SavedRow(row[a], row[a], entity) = [entity EXCEPT !.password = [by |-> p, hashes |-> 2]]
      BY <3>1, <3>2, HashOfPlain
    <3>4. Asked(p, "reset", entity, row[a]) =
            [row[a] EXCEPT !.password = [by |-> p, hashes |-> 2], !.resetToken = None]
      BY DEF Asked
    <3>5. [entity EXCEPT !.password = [by |-> p, hashes |-> 2]] =
            [row[a] EXCEPT !.password = [by |-> p, hashes |-> 2], !.resetToken = None]
      BY <1>b DEF Found, Row
    <3>6. QED
      BY <3>3, <3>4, <3>5
  <2>4. Exact(p, "load", "reset", entity, NewUser, row[a])
    BY <2>3 DEF Exact
  <2>l. \A q \in Links(entity) : q \in Links(row[a]) \/ (q = p /\ "reset" \in Mailing)
    BY <1>b DEF Links, Mailing, Found, Row
  <2> HIDE DEF entity
  <2>5. Idle(p)  /\ (Answer(p, "none", a, "400") \/ Answer(p, "none", a, "200")
                     \/ (a \in registered /\ Save(p, "reset", a, "load", entity)))
    BY <1>7, <1>f, NoneAssumption DEF entity, ResetPassword
  <2>6. QED
    BY <2>1, <2>2, <2>4, <2>5, <2>l DEF Held, PasswordKinds
<1>8. ASSUME NEW verified \in BOOLEAN, NEW avatar \in Nameable(p), Create(p, a, verified, avatar)
      PROVE  Held(p, a)
  <2> DEFINE entity == [NewUser EXCEPT !.verified = verified, !.password = Plain(p), !.bio = p,
                                       !.avatar = avatar]
  <2>1. entity \in Row
    BY <1>b, <1>c, <1>g, AssignedType
  <2>2. Sound(p, "create", entity)
    BY DEF Sound, NewUser, Plain, PasswordKinds
  <2>3. Exact(p, "insert", "create", entity, NewUser, row[a])
    BY DEF Exact
  <2>l. \A q \in Links(entity) : q \in Links(row[a]) \/ (q = p /\ "create" \in Mailing)
    BY DEF Links, Mailing, NewUser
  <2>4. QED
    BY <1>8, <2>1, <2>2, <2>3, <2>l DEF Create, Held
<1>9. ASSUME NEW avatar \in {row[a].avatar} \cup Nameable(p), PutProfile(p, a, avatar)
      PROVE  Held(p, a)
  <2> DEFINE entity == [Found(a) EXCEPT !.bio = p, !.avatar = avatar]
  <2>1. entity \in Row
    BY <1>b, <1>c, <1>g, AssignedType
  <2>2. Sound(p, "putProfile", entity)
    BY <1>b, <1>c, <1>e DEF Sound, PasswordKinds, Row
  <2>3. SavedRow(row[a], row[a], entity) = Asked(p, "putProfile", entity, row[a])
    <3>1. SavedRow(row[a], row[a], entity) =
            [entity EXCEPT !.password = IF entity.password = NoPassword THEN row[a].password
                                        ELSE HashPassword(entity.password)]
      BY <1>b, <2>1, SavedFresh
    <3>2. QED
      BY <1>b, <1>c, <3>1 DEF Asked, Found, Row, HashPassword
  <2>4. Exact(p, "load", "putProfile", entity, NewUser, row[a])
    BY <2>3 DEF Exact
  <2>l. \A q \in Links(entity) : q \in Links(row[a]) \/ (q = p /\ "putProfile" \in Mailing)
    BY <1>b DEF Links, Mailing, Found, Row
  <2> HIDE DEF entity
  <2>5. Idle(p)  /\ (Answer(p, "none", a, "400") \/ Answer(p, "none", a, "200")
                     \/ (a \in registered /\ Save(p, "putProfile", a, "load", entity)))
    BY <1>9, <1>f, NoneAssumption DEF entity, PutProfile
  <2>6. QED
    BY <2>1, <2>2, <2>4, <2>5, <2>l DEF Held, PasswordKinds
<1>10. CASE PatchProfile(p, a)
  <2> DEFINE entity == [Found(a) EXCEPT !.bio = p]
  <2>1. entity \in Row
    BY <1>b, <1>c, <1>g, AssignedType
  <2>2. Sound(p, "patchProfile", entity)
    BY <1>b, <1>c, <1>e DEF Sound, PasswordKinds, Row
  <2>3. SavedRow(row[a], row[a], entity) = Asked(p, "patchProfile", entity, row[a])
    <3>1. SavedRow(row[a], row[a], entity) =
            [entity EXCEPT !.password = IF entity.password = NoPassword THEN row[a].password
                                        ELSE HashPassword(entity.password)]
      BY <1>b, <2>1, SavedFresh
    <3>2. QED
      BY <1>b, <1>c, <3>1 DEF Asked, Found, Row, HashPassword
  <2>4. Exact(p, "load", "patchProfile", entity, NewUser, row[a])
    BY <2>3 DEF Exact
  <2>l. \A q \in Links(entity) : q \in Links(row[a]) \/ (q = p /\ "patchProfile" \in Mailing)
    BY <1>b DEF Links, Mailing, Found, Row
  <2> HIDE DEF entity
  <2>5. Idle(p)  /\ (Answer(p, "none", a, "400") \/ Answer(p, "none", a, "200")
                     \/ (a \in registered /\ Save(p, "patchProfile", a, "load", entity)))
    BY <1>10, <1>f, NoneAssumption DEF entity, PatchProfile
  <2>6. QED
    BY <2>1, <2>2, <2>4, <2>5, <2>l DEF Held, PasswordKinds
<1>11. ASSUME NEW verified \in BOOLEAN, NEW password \in {NoPassword, Plain(p)},
              NEW avatar \in {row[a].avatar} \cup Nameable(p),
              PutUser(p, a, verified, password, avatar)
      PROVE  Held(p, a)
  <2> DEFINE entity == [Found(a) EXCEPT !.bio = p, !.verified = verified, !.password = password,
                                        !.avatar = avatar]
  <2>1. entity \in Row
    BY <1>b, <1>c, <1>g, AssignedType
  <2>2. Sound(p, "putUser", entity)
    BY <1>b, <1>c, <1>e DEF Sound, PasswordKinds, Row, Hash, Plain, NoPassword
  <2>3. SavedRow(row[a], row[a], entity) = Asked(p, "putUser", entity, row[a])
    <3>1. SavedRow(row[a], row[a], entity) =
            [entity EXCEPT !.password = IF entity.password = NoPassword THEN row[a].password
                                        ELSE HashPassword(entity.password)]
      BY <1>b, <2>1, SavedFresh
    <3>2. entity = [Found(a) EXCEPT !.bio = p, !.verified = verified, !.password = password,
                                    !.avatar = avatar]
          /\ entity.password = password /\ entity.verified = verified /\ entity.avatar = avatar
      BY <1>b DEF Row
    <3>3. CASE password = NoPassword
      <4>1. Asked(p, "putUser", entity, row[a]) =
              [row[a] EXCEPT !.bio = p, !.avatar = avatar, !.verified = verified]
        BY <1>b, <3>2, <3>3 DEF Asked, Row
      <4>2. QED
        BY <1>b, <3>1, <3>2, <3>3, <4>1, ZenonT(60) DEF Found, Row
    <3>4. CASE password = Plain(p)
      <4>1. Asked(p, "putUser", entity, row[a]) =
              [row[a] EXCEPT !.bio = p, !.avatar = avatar, !.verified = verified,
                             !.password = [by |-> p, hashes |-> 1]]
        BY <1>b, <3>2, <3>4, HashOfPlain DEF Asked, Row
      <4>2. SavedRow(row[a], row[a], entity) =
              [entity EXCEPT !.password = [by |-> p, hashes |-> 1]]
        BY <3>1, <3>2, <3>4, HashOfPlain
      <4>3. QED
        BY <1>b, <3>2, <4>1, <4>2 DEF Found, Row
    <3>5. QED
      BY <1>11, <3>3, <3>4
  <2>4. Exact(p, "load", "putUser", entity, NewUser, row[a])
    BY <2>3 DEF Exact
  <2>l. \A q \in Links(entity) : q \in Links(row[a]) \/ (q = p /\ "putUser" \in Mailing)
    BY <1>b DEF Links, Mailing, Found, Row
  <2> HIDE DEF entity
  <2>5. Idle(p)  /\ (Answer(p, "none", a, "400") \/ Answer(p, "none", a, "200")
                     \/ (a \in registered /\ Save(p, "putUser", a, "load", entity)))
    BY <1>11, <1>f, NoneAssumption DEF entity, PutUser
  <2>6. QED
    BY <2>1, <2>2, <2>4, <2>5, <2>l DEF Held, PasswordKinds
<1>12. CASE UpdateSettings(p, a)
  <2> DEFINE entity == [Found(a) EXCEPT !.settings = Found(a).settings \cup {p}]
  <2>1. entity \in Row
    BY <1>b, <1>c, <1>g, AssignedType
  <2>2. Sound(p, "settings", entity)
    BY <1>b, <1>c, <1>e DEF Sound, PasswordKinds, Row
  <2>3. SavedRow(row[a], row[a], entity) = Asked(p, "settings", entity, row[a])
    <3>1. SavedRow(row[a], row[a], entity) =
            [entity EXCEPT !.password = IF entity.password = NoPassword THEN row[a].password
                                        ELSE HashPassword(entity.password)]
      BY <1>b, <2>1, SavedFresh
    <3>2. QED
      BY <1>b, <1>c, <3>1 DEF Asked, Found, Row, HashPassword
  <2>4. Exact(p, "load", "settings", entity, NewUser, row[a])
    BY <2>3 DEF Exact
  <2>l. \A q \in Links(entity) : q \in Links(row[a]) \/ (q = p /\ "settings" \in Mailing)
    BY <1>b DEF Links, Mailing, Found, Row
  <2> HIDE DEF entity
  <2>5. Idle(p)  /\ (Answer(p, "none", a, "400") \/ Answer(p, "none", a, "200")
                     \/ (a \in registered /\ Save(p, "settings", a, "load", entity)))
    BY <1>12, <1>f, NoneAssumption DEF entity, UpdateSettings
  <2>6. QED
    BY <2>1, <2>2, <2>4, <2>5, <2>l DEF Held, PasswordKinds
<1>13. CASE UploadAvatar(p, a)
  <2>1. Sound(p, "avatar", Found(a))
    BY <1>e DEF Sound, PasswordKinds
  <2>2. Exact(p, "unlink", "avatar", Found(a), NewUser, row[a])
    BY DEF Exact, Found
  <2>l. Links(Found(a)) = Links(row[a])
    BY <1>b DEF Links, Found, Row
  <2>3. QED
    BY <1>13, <1>b, <2>1, <2>2, <2>l DEF UploadAvatar, Held
<1>14. QED
  BY <1>1, <1>2, <1>3, <1>4, <1>5, <1>6, <1>7, <1>8, <1>9, <1>10, <1>11, <1>12, <1>13
     DEF Start, AuthStep, UserStep, ProfileStep

LEMMA SavesSets ==
    ASSUME TypeOK, NEW p \in Requests, Saves(p)
    PROVE  /\ req'[p].pc = IF req[p].kind \in Mailing THEN "mail" ELSE "done"
           /\ req'[p].code = IF req[p].kind \in Mailing THEN "" ELSE "200"
           /\ req'[p].kind = req[p].kind /\ req'[p].account = req[p].account
           /\ \A q \in Requests : q = p \/ req'[q] = req[q]
<1>a. req[p].kind \in Kinds /\ req[p].account \in Accounts
  BY DEF TypeOK, Request, Kinds
<1>1. CASE req[p].kind \in Mailing
  <2>1. Save(p, req[p].kind, req[p].account, "mail", NewUser)
    BY <1>1 DEF Saves
  <2>2. QED
    BY <1>a, <1>1, <2>1 DEF Save, TypeOK
<1>2. CASE req[p].kind \notin Mailing
  <2>1. Answer(p, req[p].kind, req[p].account, "200")
    BY <1>2 DEF Saves
  <2>2. QED
    BY <1>a, <1>2, <2>1, AnswerSets
<1>3. QED
  BY <1>1, <1>2

LEMMA InvInit == Init => Inv /\ RequestsExact
<1> SUFFICES ASSUME Init PROVE Inv /\ RequestsExact
  OBVIOUS
<1>1. \A p \in Requests : req[p].pc = "idle" /\ req[p].code = ""
  BY DEF Init
<1>2. RowsSound
  BY DEF Init, RowsSound, NewUser
<1>3. QED
  BY <1>1, <1>2, TypeInit DEF Inv, RequestsSound, RequestsExact, Exact, Running

(* A row is written from a sound entity.                                          *)
LEMMA RowsSoundSave ==
    ASSUME Inv, NEW p \in Requests, SaveStep(p)
    PROVE  RowsSound'
<1>a. req[p].account \in Accounts /\ req[p].entity \in Row /\ row \in [Accounts -> Row]
  BY DEF Inv, TypeOK, Request
<1>1. CASE Insert(p)
  <2>1. req[p].entity.refreshToken = None
    BY <1>1 DEF Insert, Inv, RequestsSound, Running, Sound
  <2>2. [req[p].entity EXCEPT !.password = HashPassword(req[p].entity.password)].refreshToken = None
    BY <1>a, <2>1 DEF Row
  <2>3. QED
    BY <1>1, <1>a, <2>2 DEF Insert, Inv, RowsSound
<1>2. CASE UpdateRow(p)
  <2> DEFINE a == req[p].account
  <2>1. req[p].entity.refreshToken = None /\ a \in registered
    BY <1>2 DEF UpdateRow, Inv, RequestsSound, Running, Sound
  <2>2. row[a].refreshToken = None
    BY <1>a DEF Inv, RowsSound
  <2>3. SavedRow(row[a], req[p].loaded, req[p].entity).refreshToken = None
    BY <2>1, <2>2 DEF SavedRow, SavedColumn
  <2>4. row' = [row EXCEPT ![a] = SavedRow(row[a], req[p].loaded, req[p].entity)]
        /\ registered' = registered
    BY <1>2 DEF UpdateRow
  <2> HIDE DEF a
  <2>5. QED
    BY <1>a, <2>1, <2>3, <2>4 DEF Inv, RowsSound
<1>3. CASE UNCHANGED <<registered, row>>
  BY <1>3 DEF Inv, RowsSound
<1>4. QED
  BY <1>1, <1>2, <1>3
     DEF SaveStep, UnlinkAvatar, LoadRow, SaveFails, MailSent, MailFails, Expire

LEMMA RequestsSoundSave ==
    ASSUME Inv, NEW p \in Requests, SaveStep(p)
    PROVE  RequestsSound'
<1> DEFINE Fine(q) ==
             /\ req'[q].pc \in Running => Sound(q, req'[q].kind, req'[q].entity)
             /\ req'[q].pc = "mail" => req'[q].kind \notin PasswordKinds
             /\ req'[q].pc \in Running \ {"insert"} => req'[q].account \in registered'
             /\ req'[q].code = "200" => req'[q].kind \notin PasswordKinds
<1>a. req[p] \in Request /\ TypeOK /\ registered \subseteq registered'
  BY DEF Inv, TypeOK, SaveStep, UnlinkAvatar, Insert, LoadRow, UpdateRow, SaveFails,
         MailSent, MailFails, Expire
<1>b. req[p].kind \in Kinds /\ req[p].account \in Accounts /\ req[p].entity \in Row
  BY <1>a DEF Request, Kinds
<1>c. ASSUME NEW q \in Requests, req'[q] = req[q] PROVE Fine(q)
  BY <1>a, <1>c DEF Inv, RequestsSound
<1>1. CASE UnlinkAvatar(p)
  <2>1. /\ req'[p].pc = "load" /\ req'[p].kind = req[p].kind
        /\ req'[p].account = req[p].account /\ req'[p].code = req[p].code
        /\ req'[p].entity = [req[p].entity EXCEPT !.avatar = p]
        /\ \A q \in Requests : q = p \/ req'[q] = req[q]
    BY <1>1, <1>a DEF UnlinkAvatar, TypeOK, Request
  <2>2. Sound(p, req[p].kind, req[p].entity) /\ req[p].account \in registered
    BY <1>1 DEF UnlinkAvatar, Inv, RequestsSound, Running
  <2>3. Sound(p, req'[p].kind, req'[p].entity)
    BY <1>b, <2>1, <2>2 DEF Sound, Row
  <2>4. Fine(p)
    BY <1>1, <1>a, <2>1, <2>2, <2>3 DEF Inv, RequestsSound
  <2>5. QED
    BY <1>c, <2>1, <2>4 DEF RequestsSound
<1>2. CASE Insert(p) \/ UpdateRow(p)
  <2>1. Saves(p) /\ req[p].kind \notin PasswordKinds
    BY <1>2 DEF Insert, UpdateRow, Inv, RequestsSound, Running, Sound
  <2>2. Fine(p)
    BY <1>a, <2>1, SavesSets DEF Running
  <2>3. QED
    BY <1>a, <1>c, <2>1, <2>2, SavesSets DEF RequestsSound
<1>3. CASE LoadRow(p)
  <2>1. /\ req'[p].pc = "write" /\ req'[p].kind = req[p].kind
        /\ req'[p].account = req[p].account /\ req'[p].code = req[p].code
        /\ req'[p].entity = req[p].entity
        /\ \A q \in Requests : q = p \/ req'[q] = req[q]
    BY <1>3, <1>a DEF LoadRow, TypeOK, Request
  <2>2. Fine(p)
    BY <1>3, <1>a, <2>1 DEF LoadRow, Inv, RequestsSound, Running
  <2>3. QED
    BY <1>c, <2>1, <2>2 DEF RequestsSound
<1>4. CASE SaveFails(p) \/ MailSent(p) \/ MailFails(p)
  <2>1. PICK code \in {"200", "500"} :
           /\ Answer(p, req[p].kind, req[p].account, code)
           /\ code = "200" => req[p].pc = "mail"
    BY <1>4 DEF SaveFails, MailSent, MailFails
  <2>2. Fine(p)
    BY <1>a, <1>b, <2>1, AnswerSets DEF Inv, RequestsSound, Running
  <2>3. QED
    BY <1>a, <1>b, <1>c, <2>1, <2>2, AnswerSets DEF RequestsSound
<1>5. CASE Expire(p)
  BY <1>5, <1>c DEF Expire, RequestsSound
<1>6. QED
  BY <1>1, <1>2, <1>3, <1>4, <1>5 DEF SaveStep

LEMMA InvNext == Inv /\ [Next]_vars => Inv'
<1> SUFFICES ASSUME Inv, [Next]_vars PROVE Inv'
  OBVIOUS
<1>a. TypeOK /\ TypeOK'
  BY TypeNext DEF Inv
<1>1. ASSUME NEW p \in Requests, NEW a \in Accounts, Start(p, a) PROVE Inv'
  <2>1. UNCHANGED <<registered, row, overlapped>>
    BY <1>1, <1>a, StartType
  <2>2. RowsSound'
    BY <2>1 DEF Inv, RowsSound
  <2>3. Held(p, a)
    BY <1>1, StartHolds
  <2>4. CASE \E kind \in Kinds, code \in {"200", "400", "500"} :
                Answer(p, kind, a, code) /\ (code = "200" => kind \notin PasswordKinds)
    <3>1. PICK kind \in Kinds, code \in {"200", "400", "500"} :
                Answer(p, kind, a, code) /\ (code = "200" => kind \notin PasswordKinds)
      BY <2>4
    <3>2. RequestsSound'
      BY <1>a, <2>1, <3>1, AnswerSets DEF Inv, RequestsSound, Running
    <3>3. QED
      BY <1>a, <2>2, <3>2 DEF Inv
  <2>5. CASE \E kind \in Kinds, pc \in {"insert", "unlink", "load"}, entity \in Row :
                /\ Save(p, kind, a, pc, entity)
                /\ Sound(p, kind, entity)
                /\ pc # "insert" => a \in registered
    <3>1. PICK kind \in Kinds, pc \in {"insert", "unlink", "load"}, entity \in Row :
                /\ Save(p, kind, a, pc, entity)
                /\ Sound(p, kind, entity)
                /\ pc # "insert" => a \in registered
      BY <2>5
    <3>2. /\ req'[p].pc = pc /\ req'[p].kind = kind /\ req'[p].account = a
          /\ req'[p].entity = entity /\ req'[p].code = ""
          /\ \A q \in Requests : q = p \/ req'[q] = req[q]
      BY <1>a, <3>1 DEF Save, TypeOK
    <3>4. RequestsSound'
      BY <2>1, <3>1, <3>2, ZenonT(60) DEF Inv, RequestsSound, Running, Sound
    <3>3. QED
      BY <1>a, <2>2, <3>4 DEF Inv
  <2>6. QED
    BY <2>3, <2>4, <2>5 DEF Held
<1>2. ASSUME NEW p \in Requests, SaveStep(p) PROVE Inv'
  BY <1>2, <1>a, RowsSoundSave, RequestsSoundSave DEF Inv
<1>3. CASE UNCHANGED vars
  BY <1>3, <1>a DEF vars, Inv, RowsSound, RequestsSound
<1>4. QED
  BY <1>1, <1>2, <1>3 DEF Next, Start

(* The rows and what the requests hold stay sound, in every reachable state.      *)
THEOREM Invariance == Spec => []Inv
BY InvInit, InvNext, PTL DEF Spec

(* Login, refresh and change-password never succeed, and no refresh token is ever  *)
(* stored: findOne never selects the password that they compare with.              *)
THEOREM NoOneLogsInHolds == Spec => []NoOneLogsIn
<1>1. Inv => NoOneLogsIn
  BY DEF Inv, RowsSound, RequestsSound, NoOneLogsIn, PasswordKinds
<1>2. QED
  BY <1>1, Invariance, PTL

------------------------------------------------------------------------------
(* What a save writes. *)

(* A step of a request leaves the other requests as they are.                     *)
LEMMA OthersKept ==
    ASSUME Inv, NEW p \in Requests, SaveStep(p) \/ \E a \in Accounts : Start(p, a)
    PROVE  \A q \in Requests : q = p \/ req'[q] = req[q]
<1>a. TypeOK
  BY DEF Inv
<1>1. ASSUME NEW a \in Accounts, Start(p, a)
      PROVE  \A q \in Requests : q = p \/ req'[q] = req[q]
  BY <1>1, <1>a, StartType, ZenonT(60) DEF Begins, Answer, Save, TypeOK
<1>2. CASE Insert(p) \/ UpdateRow(p)
  BY <1>2, <1>a, SavesSets DEF Insert, UpdateRow
<1>3. CASE SaveFails(p) \/ MailSent(p) \/ MailFails(p)
  BY <1>3, <1>a DEF SaveFails, MailSent, MailFails, Answer, TypeOK
<1>4. CASE UnlinkAvatar(p) \/ LoadRow(p) \/ Expire(p)
  BY <1>4, <1>a DEF UnlinkAvatar, LoadRow, Expire, TypeOK
<1>5. QED
  BY <1>1, <1>2, <1>3, <1>4 DEF SaveStep

LEMMA ExactSave ==
    ASSUME Inv, RequestsExact, NEW p \in Requests, SaveStep(p)
    PROVE  RequestsExact'
<1> DEFINE Fine(q) == Exact(q, req'[q].pc, req'[q].kind, req'[q].entity, req'[q].loaded,
                            row'[req'[q].account])
<1>a. TypeOK /\ overlapped \subseteq overlapped' /\ req[p] \in Request
  BY DEF Inv, TypeOK, SaveStep, UnlinkAvatar, Insert, LoadRow, UpdateRow, SaveFails,
         MailSent, MailFails, Expire
<1>b. /\ req[p].kind \in Kinds /\ req[p].account \in Accounts /\ req[p].entity \in Row
      /\ row \in [Accounts -> Row] /\ \A q \in Requests : req[q].account \in Accounts
  BY <1>a DEF TypeOK, Request, Kinds
<1>c. \A q \in Requests : q = p \/ req'[q] = req[q]
  BY OthersKept
<1>d. ASSUME NEW q \in Requests \ overlapped', q # p,
             req[q].pc \in {"unlink", "load", "write"} => row'[req[q].account] = row[req[q].account]
      PROVE  Fine(q)
  BY <1>a, <1>c, <1>d DEF RequestsExact, Exact
<1>1. CASE UnlinkAvatar(p)
  <2>1. /\ req'[p].pc = "load" /\ req'[p].kind = req[p].kind
        /\ req'[p].account = req[p].account
        /\ req'[p].entity = [req[p].entity EXCEPT !.avatar = p]
        /\ row' = row
    BY <1>1, <1>a DEF UnlinkAvatar, TypeOK, Request
  <2>2. ASSUME p \notin overlapped PROVE Fine(p)
    <3> DEFINE r == row[req[p].account]
               entity == [req[p].entity EXCEPT !.avatar = p]
    <3>1. req[p].kind = "avatar" /\ req[p].entity = [r EXCEPT !.password = NoPassword]
      BY <1>1, <2>2 DEF UnlinkAvatar, RequestsExact, Exact
    <3>2. r \in Row /\ entity \in Row
      BY <1>b DEF Row, Named
    <3>3. SavedRow(r, r, entity) =
            [entity EXCEPT !.password = IF entity.password = NoPassword THEN r.password
                                        ELSE HashPassword(entity.password)]
      BY <3>2, SavedFresh
    <3>4. entity = [r EXCEPT !.password = NoPassword, !.avatar = p]
      BY <3>1
    <3>5. SavedRow(r, r, entity) = Asked(p, "avatar", entity, r)
      BY <3>2, <3>3, <3>4 DEF Asked, Row
    <3>6. QED
      BY <2>1, <3>1, <3>5 DEF Exact
  <2>3. QED
    BY <1>1, <1>a, <1>d, <2>1, <2>2 DEF RequestsExact
<1>2. CASE Insert(p)
  <2>1. \A q \in Requests : q # p /\ req[q].pc \in {"unlink", "load", "write"} =>
           row'[req[q].account] = row[req[q].account]
    BY <1>2, <1>b DEF Insert, Inv, RequestsSound, Running
  <2>2. Fine(p)
    BY <1>2, <1>a, SavesSets DEF Insert, Exact
  <2>3. QED
    BY <1>d, <2>1, <2>2 DEF RequestsExact
<1>3. CASE LoadRow(p)
  <2>1. /\ req'[p].pc = "write" /\ req'[p].kind = req[p].kind
        /\ req'[p].account = req[p].account /\ req'[p].entity = req[p].entity
        /\ req'[p].loaded = row[req[p].account] /\ row' = row
    BY <1>3, <1>a DEF LoadRow, TypeOK, Request
  <2>2. p \notin overlapped => Fine(p)
    BY <1>3, <2>1 DEF LoadRow, RequestsExact, Exact
  <2>3. QED
    BY <1>a, <1>d, <2>1, <2>2 DEF RequestsExact
<1>4. CASE UpdateRow(p)
  <2>1. \A q \in Requests \ overlapped' :
           q # p /\ req[q].pc \in {"unlink", "load", "write"} =>
              row'[req[q].account] = row[req[q].account]
    BY <1>4, <1>b DEF UpdateRow, Holding
  <2>2. Fine(p)
    BY <1>4, <1>a, SavesSets DEF UpdateRow, Exact
  <2>3. QED
    BY <1>d, <2>1, <2>2 DEF RequestsExact
<1>5. CASE SaveFails(p) \/ MailSent(p) \/ MailFails(p)
  <2>1. req'[p].pc = "done" /\ row' = row
    BY <1>5, <1>a, <1>b, AnswerSets DEF SaveFails, MailSent, MailFails
  <2>2. Fine(p)
    BY <2>1 DEF Exact
  <2>3. QED
    BY <1>d, <2>1, <2>2 DEF RequestsExact
<1>6. CASE Expire(p)
  BY <1>6 DEF Expire, RequestsExact
<1>7. QED
  BY <1>1, <1>2, <1>3, <1>4, <1>5, <1>6 DEF SaveStep

LEMMA ExactNext == Inv /\ RequestsExact /\ [Next]_vars => RequestsExact'
<1> SUFFICES ASSUME Inv, RequestsExact, [Next]_vars PROVE RequestsExact'
  OBVIOUS
<1>a. TypeOK
  BY DEF Inv
<1>1. ASSUME NEW p \in Requests, NEW a \in Accounts, Start(p, a) PROVE RequestsExact'
  <2>1. UNCHANGED <<row, overlapped>>
    BY <1>1, <1>a, StartType
  <2>2. \A q \in Requests : q = p \/ req'[q] = req[q]
    BY <1>1, OthersKept
  <2>3. Exact(p, req'[p].pc, req'[p].kind, req'[p].entity, req'[p].loaded, row[req'[p].account])
    <3>1. Held(p, a)
      BY <1>1, StartHolds
    <3>2. ASSUME NEW kind \in Kinds, NEW code \in {"200", "400", "500"}, Answer(p, kind, a, code)
          PROVE  req'[p].pc = "done"
      BY <3>2, <1>a, AnswerSets
    <3>3. ASSUME NEW kind \in Kinds, NEW pc \in {"insert", "unlink", "load"}, NEW entity \in Row,
                 Save(p, kind, a, pc, entity), Exact(p, pc, kind, entity, NewUser, row[a])
          PROVE  Exact(p, req'[p].pc, req'[p].kind, req'[p].entity, req'[p].loaded,
                       row[req'[p].account])
      <4>1. /\ req'[p].pc = pc /\ req'[p].kind = kind /\ req'[p].account = a
            /\ req'[p].entity = entity /\ req'[p].loaded = NewUser
        BY <3>3, <1>a DEF Save, TypeOK
      <4>2. QED
        BY <3>3, <4>1
    <3>4. QED
      BY <3>1, <3>2, <3>3 DEF Held, Exact
  <2>4. QED
    BY <2>1, <2>2, <2>3 DEF RequestsExact
<1>2. CASE UNCHANGED vars
  BY <1>2 DEF vars, RequestsExact
<1>3. QED
  BY <1>1, <1>2, ExactSave DEF Next, Start

(* A request that nobody overlapped writes its row as it is there to do.          *)
THEOREM SaveIsExactHolds == Spec => SaveIsExact
<1>1. ASSUME Inv, RequestsExact, [Next]_vars, NEW p \in Requests \ overlapped,
             req[p].pc = "write", req'[p].pc # "write", req'[p].code # "500"
      PROVE  row'[req[p].account] =
                Asked(p, req[p].kind, req[p].entity, row[req[p].account])
  <2>a. TypeOK /\ req[p].kind \in Kinds /\ req[p].account \in Accounts
        /\ req[p].account \in DOMAIN row
    BY <1>1 DEF Inv, TypeOK, Request, Kinds
  <2>1. \A q \in Requests, a \in Accounts : ~(q = p /\ Start(q, a))
    BY <1>1, <2>a, StartType DEF Idle
  <2>2. UpdateRow(p) \/ SaveFails(p)
    BY <1>1, <2>1, OthersKept
       DEF Next, Start, vars, SaveStep, UnlinkAvatar, Insert, LoadRow, MailSent, MailFails, Expire
  <2>3. ~SaveFails(p)
    BY <1>1, <2>a, AnswerSets DEF SaveFails
  <2>4. row'[req[p].account] = SavedRow(row[req[p].account], req[p].loaded, req[p].entity)
    BY <2>2, <2>3, <2>a DEF UpdateRow
  <2>5. QED
    BY <1>1, <2>4 DEF RequestsExact, Exact
<1>2. Inv /\ RequestsExact /\ [Next]_vars =>
        [\A p \in Requests \ overlapped :
          req[p].pc = "write" /\ req'[p].pc # "write" /\ req'[p].code # "500" =>
             row'[req[p].account] =
                Asked(p, req[p].kind, req[p].entity, row[req[p].account])]_vars
  BY <1>1
<1>3. QED
  BY <1>2, InvInit, InvNext, ExactNext, PTL DEF Spec, SaveIsExact

(* A save that changes the password of a row makes it the one its request named.  *)
THEOREM OldPasswordNeverReturnsHolds == Spec => OldPasswordNeverReturns
<1>1. ASSUME Inv, [Next]_vars, NEW a \in registered, row'[a].password # row[a].password
      PROVE  \E p \in Requests : req[p].pc = "write" /\ req'[p].pc # "write"
                               /\ row'[a].password.by = p
  <2>a. TypeOK /\ a \in Accounts /\ row \in [Accounts -> Row]
    BY <1>1 DEF Inv, TypeOK
  <2>1. \A p \in Requests, b \in Accounts : ~Start(p, b)
    BY <1>1, <2>a, StartType
  <2>2. PICK p \in Requests : Insert(p) \/ UpdateRow(p)
    BY <1>1, <2>1
       DEF Next, Start, vars, SaveStep, UnlinkAvatar, LoadRow, SaveFails, MailSent, MailFails, Expire
  <2>3. ~Insert(p)
    BY <1>1, <2>a DEF Insert
  <2>4. req[p].account = a /\ req[p].pc = "write"
    BY <1>1, <2>2, <2>3, <2>a DEF UpdateRow
  <2>5. row'[a] = SavedRow(row[a], req[p].loaded, req[p].entity)
    BY <2>2, <2>3, <2>4, <2>a DEF UpdateRow
  <2>6. /\ req[p].entity.password # NoPassword
        /\ row'[a].password = HashPassword(req[p].entity.password)
    BY <1>1, <2>5 DEF SavedRow
  <2>7. req[p].entity.password.by = p /\ req[p].entity.password \in Password
    BY <1>1, <2>4, <2>6 DEF Inv, RequestsSound, Running, Sound, TypeOK, Request, Row
  <2>8. row'[a].password.by = p
    BY <2>6, <2>7 DEF HashPassword, Hash, Password
  <2>9. req'[p].pc # "write"
    BY <2>2, <2>3, <2>a, SavesSets DEF UpdateRow
  <2>10. QED
    BY <2>4, <2>8, <2>9
<1>2. Inv /\ [Next]_vars =>
        [\A a \in registered : row'[a].password # row[a].password =>
          \E p \in Requests : req[p].pc = "write" /\ req'[p].pc # "write"
                             /\ row'[a].password.by = p]_vars
  BY <1>1
<1>3. QED
  BY <1>2, InvInit, InvNext, PTL DEF Spec, OldPasswordNeverReturns

------------------------------------------------------------------------------
(* The links of a row are mailed. *)

(* The owner of request q's link has it, is about to get it, or was told it failed.*)
Known(q) == q \in mailed \/ req[q].pc = "mail" \/ req[q].code = "500"

LinksKnown ==
    /\ \A a \in Accounts : \A q \in Links(row[a]) : Known(q)
    /\ \A p \in Requests : req[p].pc \in Running =>
          \A q \in Links(req[p].entity) : Known(q) \/ (q = p /\ req[p].kind \in Mailing)
    /\ \A p \in Requests : req[p].code # "" => req[p].pc = "done"

LEMMA LinksType ==
    ASSUME NEW entity \in Row
    PROVE  Links(entity) \subseteq Requests
BY DEF Links, Row, Named

(* A known link stays known. *)
LEMMA KnownStays ==
    ASSUME Inv, LinksKnown, [Next]_vars, NEW q \in Requests, Known(q)
    PROVE  Known(q)'
<1>a. TypeOK
  BY DEF Inv
<1>1. ASSUME NEW p \in Requests, NEW a \in Accounts, Start(p, a) PROVE Known(q)'
  <2>1. Idle(p) /\ mailed' = mailed
    BY <1>1, <1>a, StartType
  <2>2. q \in mailed \/ q # p
    BY <2>1 DEF Known, Idle, LinksKnown
  <2>3. QED
    BY <1>1, <2>1, <2>2, OthersKept DEF Known
<1>2. ASSUME NEW p \in Requests, SaveStep(p) PROVE Known(q)'
  <2>1. mailed \subseteq mailed'
    BY <1>2 DEF SaveStep, UnlinkAvatar, Insert, LoadRow, UpdateRow, SaveFails,
                MailSent, MailFails, Expire
  <2>2. CASE q # p \/ q \in mailed
    BY <1>2, <2>1, <2>2, OthersKept DEF Known
  <2>3. CASE q = p /\ q \notin mailed
    <3>1. req[p].pc \in {"mail", "done"} /\ req[p].kind \in Kinds /\ req[p].account \in Accounts
      BY <2>3, <1>a DEF Known, LinksKnown, TypeOK, Request, Kinds
    <3>2. MailSent(p) \/ MailFails(p) \/ Expire(p)
      BY <1>2, <3>1 DEF SaveStep, UnlinkAvatar, Insert, LoadRow, UpdateRow, SaveFails
    <3>3. QED
      BY <2>3, <1>a, <3>1, <3>2, AnswerSets DEF MailSent, MailFails, Expire, Known
  <2>4. QED
    BY <2>2, <2>3
<1>3. CASE UNCHANGED vars
  BY <1>3 DEF vars, Known
<1>4. QED
  BY <1>1, <1>2, <1>3 DEF Next, Start

(* So does an entity or a row whose links were known, and what a save writes.      *)
LEMMA LinksNext == Inv /\ LinksKnown /\ [Next]_vars => LinksKnown'
<1> SUFFICES ASSUME Inv, LinksKnown, [Next]_vars PROVE LinksKnown'
  OBVIOUS
<1>a. TypeOK /\ TypeOK'
  BY TypeNext DEF Inv
<1>b. \A q \in Requests : Known(q) => Known(q)'
  BY KnownStays
<1>c. /\ \A a \in Accounts : row[a] \in Row /\ Links(row[a]) \subseteq Requests
      /\ \A p \in Requests : /\ req[p].account \in Accounts /\ req[p].kind \in Kinds
                             /\ req[p].entity \in Row /\ req[p].loaded \in Row
                             /\ Links(req[p].entity) \subseteq Requests
  BY <1>a, LinksType DEF TypeOK, Request, Kinds
<1> DEFINE Fine(p) == /\ req'[p].pc \in Running =>
                           \A q \in Links(req'[p].entity) :
                              Known(q)' \/ (q = p /\ req'[p].kind \in Mailing)
                      /\ req'[p].code # "" => req'[p].pc = "done"
           RowFine(a) == \A q \in Links(row'[a]) : Known(q)'
<1>d. ASSUME NEW p \in Requests, req'[p] = req[p] PROVE Fine(p)
  BY <1>b, <1>c, <1>d DEF LinksKnown
<1>e. ASSUME NEW a \in Accounts, row'[a] = row[a] PROVE RowFine(a)
  BY <1>b, <1>c, <1>e DEF LinksKnown
<1>f. ASSUME \A p \in Requests : Fine(p), \A a \in Accounts : RowFine(a) PROVE LinksKnown'
  BY <1>f DEF LinksKnown
<1>g. ASSUME NEW p \in Requests, Fine(p), \A q \in Requests : q = p \/ req'[q] = req[q],
             \A a \in Accounts : row'[a] = row[a] \/ RowFine(a)
      PROVE  LinksKnown'
  <2>1. \A q \in Requests : Fine(q)
    BY <1>d, <1>g
  <2>2. \A a \in Accounts : RowFine(a)
    BY <1>e, <1>g
  <2>3. QED
    BY <1>f, <2>1, <2>2
<1>1. ASSUME NEW p \in Requests, NEW a \in Accounts, Start(p, a) PROVE LinksKnown'
  <2>1. row' = row /\ \A q \in Requests : q = p \/ req'[q] = req[q]
    BY <1>1, <1>a, StartType, OthersKept
  <2>2. Fine(p)
    <3>1. Held(p, a)
      BY <1>1, StartHolds
    <3>2. ASSUME NEW kind \in Kinds, NEW code \in {"200", "400", "500"}, Answer(p, kind, a, code)
          PROVE  Fine(p)
      <4>1. req'[p].pc = "done"
        BY <3>2, <1>a, AnswerSets
      <4>2. QED
        BY <4>1 DEF Running
    <3>3. ASSUME NEW kind \in Kinds, NEW pc \in {"insert", "unlink", "load"}, NEW entity \in Row,
                 Save(p, kind, a, pc, entity),
                 \A q \in Links(entity) : q \in Links(row[a]) \/ (q = p /\ kind \in Mailing)
          PROVE  Fine(p)
      <4>2. req'[p].kind = kind /\ req'[p].entity = entity /\ req'[p].code = ""
        BY <3>3, <1>a DEF Save, TypeOK
      <4>3. \A q \in Links(row[a]) : Known(q)'
        BY <1>b, <1>c DEF LinksKnown
      <4>4. QED
        BY <3>3, <4>2, <4>3
    <3>4. QED
      BY <3>1, <3>2, <3>3 DEF Held
  <2>3. QED
    BY <1>g, <2>1, <2>2
<1>2. ASSUME NEW p \in Requests, SaveStep(p) PROVE LinksKnown'
  <2>a. \A q \in Requests : q = p \/ req'[q] = req[q]
    BY <1>2, OthersKept
  <2>b. req[p] \in Request
    BY <1>a DEF TypeOK
  <2> DEFINE b == req[p].account
  <2>1. CASE UnlinkAvatar(p)
    <3>1. /\ req'[p].pc = "load" /\ req'[p].kind = req[p].kind /\ req'[p].code = req[p].code
          /\ req'[p].entity = [req[p].entity EXCEPT !.avatar = p] /\ row' = row
      BY <2>1, <1>a, <2>b DEF UnlinkAvatar, TypeOK, Request
    <3>2. Links(req'[p].entity) = Links(req[p].entity)
      BY <1>c, <3>1 DEF Links, Row
    <3>3. Fine(p)
      BY <1>b, <1>c, <2>1, <3>1, <3>2 DEF UnlinkAvatar, LinksKnown, Running
    <3>4. QED
      BY <1>g, <2>a, <3>1, <3>3
  <2>2. CASE Insert(p) \/ UpdateRow(p)
    <3>1. Saves(p) /\ req[p].pc \in Running /\ b \in Accounts
      BY <2>2, <1>c DEF Insert, UpdateRow, Running
    <3>2. Fine(p)
      BY <1>a, <3>1, SavesSets DEF Running
    <3>3. \A q \in Links(req[p].entity) : Known(q)'
      <4>1. req[p].kind \in Mailing => Known(p)'
        BY <1>a, <3>1, SavesSets DEF Known
      <4>2. QED
        BY <1>b, <1>c, <3>1, <4>1 DEF LinksKnown
    <3>4. \A q \in Links(row[b]) : Known(q)'
      BY <1>b, <1>c DEF LinksKnown
    <3>5. /\ row'[b].verifyToken \in {req[p].entity.verifyToken, row[b].verifyToken}
          /\ row'[b].resetToken \in {req[p].entity.resetToken, row[b].resetToken}
          /\ \A a \in Accounts : a # b => row'[a] = row[a]
      <4>1. CASE Insert(p)
        <5>1. row' = [row EXCEPT ![b] =
                        [req[p].entity EXCEPT !.password = HashPassword(req[p].entity.password)]]
          BY <4>1 DEF Insert
        <5>2. QED
          BY <1>a, <1>c, <5>1 DEF TypeOK, Row
      <4>2. CASE UpdateRow(p)
        <5>1. row' = [row EXCEPT ![b] = SavedRow(row[b], req[p].loaded, req[p].entity)]
          BY <4>2 DEF UpdateRow
        <5>2. QED
          BY <1>a, <1>c, <5>1 DEF TypeOK, SavedRow, SavedColumn
      <4>3. QED
        BY <2>2, <4>1, <4>2
    <3>6. Links(row'[b]) \subseteq Links(req[p].entity) \cup Links(row[b])
      BY <3>5 DEF Links
    <3>7. RowFine(b)
      BY <3>3, <3>4, <3>6
    <3>8. QED
      BY <1>g, <2>a, <3>2, <3>5, <3>7
  <2>3. CASE LoadRow(p)
    <3>1. /\ req'[p].pc = "write" /\ req'[p].kind = req[p].kind /\ req'[p].code = req[p].code
          /\ req'[p].entity = req[p].entity /\ row' = row
      BY <2>3, <1>a, <2>b DEF LoadRow, TypeOK, Request
    <3>2. Fine(p)
      BY <1>b, <1>c, <2>3, <3>1 DEF LoadRow, LinksKnown, Running
    <3>3. QED
      BY <1>g, <2>a, <3>1, <3>2
  <2>4. CASE SaveFails(p) \/ MailSent(p) \/ MailFails(p)
    <3>1. req'[p].pc = "done" /\ row' = row
      BY <2>4, <1>a, <1>c, AnswerSets DEF SaveFails, MailSent, MailFails
    <3>2. Fine(p)
      BY <3>1 DEF Running
    <3>3. QED
      BY <1>g, <2>a, <3>1, <3>2
  <2>5. CASE Expire(p)
    BY <2>5, <1>d, <1>e, <1>f DEF Expire
  <2>6. QED
    BY <1>2, <2>1, <2>2, <2>3, <2>4, <2>5 DEF SaveStep
<1>3. CASE UNCHANGED vars
  BY <1>3, <1>d, <1>e, <1>f DEF vars
<1>4. QED
  BY <1>1, <1>2, <1>3 DEF Next, Start

(* Whatever is saved over what, a row holds only links whose mail went out, is     *)
(* going out, or failed.                                                           *)
THEOREM LinkIsMailedHolds == Spec => []LinkIsMailed
<1>1. Init => LinksKnown
  <2>1. ASSUME Init PROVE LinksKnown
    <3>1. \A p \in Requests : req[p].pc = "idle" /\ req[p].code = ""
      BY <2>1 DEF Init
    <3>2. \A a \in Accounts : Links(row[a]) = {}
      BY <2>1 DEF Init, Links, NewUser
    <3>3. QED
      BY <3>1, <3>2 DEF LinksKnown, Running
  <2>2. QED
    BY <2>1
<1>2. LinksKnown => LinkIsMailed
  BY NoneAssumption DEF LinksKnown, LinkIsMailed, Links, Known
<1>3. QED
  BY <1>1, <1>2, InvInit, InvNext, LinksNext, PTL DEF Spec

------------------------------------------------------------------------------
(* The file of an avatar. *)

(* How a request begins, as far as files and avatars go.                          *)
BeginsUpload(p, a) ==
    \/ /\ files' = files
       /\ \E kind \in Kinds \ {"avatar"} :
            \/ \E code \in {"200", "400", "500"} : Answer(p, kind, a, code)
            \/ \E pc \in {"insert", "load"}, entity \in Row :
                  /\ Save(p, kind, a, pc, entity)
                  /\ entity.avatar \in {row[a].avatar} \cup Nameable(p)
    \/ files' = files \cup {p} /\ Save(p, "avatar", a, "unlink", Found(a))

(* Only an upload begins with a file, and no request takes the name of one that is *)
(* not over.                                                                      *)
LEMMA StartUpload ==
    ASSUME TypeOK, NEW p \in Requests, NEW a \in Accounts, Start(p, a)
    PROVE  BeginsUpload(p, a)
<1> USE DEF Kinds, AuthRequests, UserRequests, ProfileRequests
<1>b. row[a] \in Row /\ Found(a) \in Row /\ NewUser \in Row
      /\ Found(a).avatar = row[a].avatar /\ NewUser.avatar = None
  BY FoundType, NewUserType DEF Found, NewUser, Row
<1>c. Plain(p) \in Password /\ Hash(Plain(p)) \in Password /\ NoPassword \in Password
  BY PlainType
<1>i. {row[a].avatar} \cup Nameable(p) \subseteq Named /\ None \in Nameable(p) /\ None \in Named
  BY NameableType DEF Nameable
<1>d. \A given \in Requests : PasswordRefused(a, given) \in {"", "400", "500"}
  BY DEF PasswordRefused, ValidatePassword
<1>e. ASSUME NEW kind \in Kinds \ {"avatar"}, NEW code \in {"200", "400", "500"},
             Answer(p, kind, a, code), files' = files
      PROVE  BeginsUpload(p, a)
  BY <1>e DEF BeginsUpload
<1>f. ASSUME NEW kind \in Kinds \ {"avatar"}, NEW entity \in Row,
             entity.avatar \in {row[a].avatar} \cup Nameable(p),
             Save(p, kind, a, "load", entity), files' = files
      PROVE  BeginsUpload(p, a)
  BY <1>f DEF BeginsUpload
<1>g. ASSUME NEW kind \in Kinds \ {"avatar"}, NEW entity \in Row,
             entity.avatar \in Nameable(p),
             Save(p, kind, a, "insert", entity), files' = files
      PROVE  BeginsUpload(p, a)
  BY <1>g DEF BeginsUpload
<1>h. ASSUME NEW r \in Row, NEW verified \in BOOLEAN, NEW password \in Password,
             NEW avatar \in Named
      PROVE  /\ [r EXCEPT !.refreshToken = p].avatar = r.avatar
             /\ [r EXCEPT !.verified = TRUE, !.verifyToken = None].avatar = r.avatar
             /\ [r EXCEPT !.verifyToken = p].avatar = r.avatar
             /\ [r EXCEPT !.password = password].avatar = r.avatar
             /\ [r EXCEPT !.resetToken = p].avatar = r.avatar
             /\ [r EXCEPT !.password = password, !.resetToken = None].avatar = r.avatar
             /\ [r EXCEPT !.verifyToken = p, !.password = password].avatar = r.avatar
             /\ [r EXCEPT !.verified = verified, !.password = password, !.bio = p,
                          !.avatar = avatar].avatar = avatar
             /\ [r EXCEPT !.bio = p, !.verified = verified, !.password = password,
                          !.avatar = avatar].avatar = avatar
             /\ [r EXCEPT !.bio = p, !.avatar = avatar].avatar = avatar
             /\ [r EXCEPT !.bio = p].avatar = r.avatar
             /\ [r EXCEPT !.settings = r.settings \cup {p}].avatar = r.avatar
  BY DEF Row
<1>1. CASE Register(p, a)
  <2> DEFINE entity == [NewUser EXCEPT !.verifyToken = p, !.password = Plain(p)]
  <2>1. entity \in Row /\ entity.avatar = None
    BY <1>b, <1>c, <1>h, <1>i, AssignedType
  <2>2. files' = files /\ (Answer(p, "none", a, "400") \/ Save(p, "register", a, "insert", entity))
    BY <1>1 DEF Register
  <2> HIDE DEF entity
  <2>3. QED
    BY <1>e, <1>g, <1>i, <2>1, <2>2
<1>2. CASE ResendVerificationEmail(p, a)
  <2> DEFINE entity == [Found(a) EXCEPT !.verifyToken = p]
  <2>1. entity \in Row /\ entity.avatar = row[a].avatar
    BY <1>b, <1>c, <1>h, <1>i, AssignedType
  <2>2. files' = files /\ (Answer(p, "none", a, "400") \/ Save(p, "resend", a, "load", entity))
    BY <1>2 DEF ResendVerificationEmail
  <2> HIDE DEF entity
  <2>3. QED
    BY <1>e, <1>f, <2>1, <2>2
<1>3. CASE RequestPasswordReset(p, a)
  <2> DEFINE entity == [Found(a) EXCEPT !.resetToken = p]
  <2>1. entity \in Row /\ entity.avatar = row[a].avatar
    BY <1>b, <1>c, <1>h, <1>i, AssignedType
  <2>2. files' = files /\ (Answer(p, "none", a, "200") \/ Save(p, "forgot", a, "load", entity))
    BY <1>3 DEF RequestPasswordReset
  <2> HIDE DEF entity
  <2>3. QED
    BY <1>e, <1>f, <2>1, <2>2
<1>4. ASSUME NEW given \in Requests, Login(p, a, given) \/ ChangePassword(p, a, given)
      PROVE  BeginsUpload(p, a)
  <2> DEFINE refused == IF PasswordRefused(a, given) = "" /\ ~row[a].verified
                        THEN "400" ELSE PasswordRefused(a, given)
             logged == [Found(a) EXCEPT !.refreshToken = p]
             changed == [Found(a) EXCEPT !.password = Hash(Plain(p))]
  <2>1. /\ logged \in Row /\ logged.avatar = row[a].avatar
        /\ changed \in Row /\ changed.avatar = row[a].avatar
    BY <1>b, <1>c, <1>h, <1>i, AssignedType, ZenonT(60)
  <2>2. /\ refused = "" \/ refused \in {"400", "500"}
        /\ PasswordRefused(a, given) = "" \/ PasswordRefused(a, given) \in {"400", "500"}
    BY <1>d
  <2>3. /\ files' = files
        /\ \/ refused # "" /\ Answer(p, "none", a, refused)
           \/ Save(p, "login", a, "load", logged)
           \/ PasswordRefused(a, given) # "" /\ Answer(p, "none", a, PasswordRefused(a, given))
           \/ Save(p, "changePassword", a, "load", changed)
    <3>1. CASE Login(p, a, given)
      BY <3>1 DEF Login
    <3>2. CASE ChangePassword(p, a, given)
      BY <3>2 DEF ChangePassword
    <3>3. QED
      BY <1>4, <3>1, <3>2
  <2> HIDE DEF refused, logged, changed
  <2>4. QED
    BY <1>e, <1>f, <2>1, <2>2, <2>3
<1>5. ASSUME NEW token \in Requests, Refresh(p, a, token)
      PROVE  BeginsUpload(p, a)
  <2> DEFINE entity == [Found(a) EXCEPT !.refreshToken = p]
  <2>1. entity \in Row /\ entity.avatar = row[a].avatar
    BY <1>b, <1>c, <1>h, <1>i, AssignedType
  <2>2. files' = files /\ (Answer(p, "none", a, "400") \/ Save(p, "refresh", a, "load", entity))
    BY <1>5 DEF Refresh
  <2> HIDE DEF entity
  <2>3. QED
    BY <1>e, <1>f, <2>1, <2>2
<1>6. ASSUME NEW token \in Requests, VerifyEmail(p, a, token)
      PROVE  BeginsUpload(p, a)
  <2> DEFINE entity == [Found(a) EXCEPT !.verified = TRUE, !.verifyToken = None]
  <2>1. entity \in Row /\ entity.avatar = row[a].avatar
    BY <1>b, <1>c, <1>h, <1>i, AssignedType
  <2>2. files' = files /\ (Answer(p, "none", a, "400") \/ Save(p, "verify", a, "load", entity))
    BY <1>6 DEF VerifyEmail
  <2> HIDE DEF entity
  <2>3. QED
    BY <1>e, <1>f, <2>1, <2>2
<1>7. ASSUME NEW token \in Requests, ResetPassword(p, a, token)
      PROVE  BeginsUpload(p, a)
  <2> DEFINE entity == [Found(a) EXCEPT !.password = Hash(Plain(p)), !.resetToken = None]
  <2>1. entity \in Row /\ entity.avatar = row[a].avatar
    <3>1. entity \in Row
      BY <1>b, <1>c, <1>i, AssignedType
    <3>2. entity.avatar = Found(a).avatar
      BY <1>b, <1>c, <1>h, <1>i
    <3>3. QED
      BY <1>b, <3>1, <3>2
  <2>2. files' = files /\ (Answer(p, "none", a, "400") \/ Save(p, "reset", a, "load", entity))
    BY <1>7 DEF ResetPassword
  <2> HIDE DEF entity
  <2>3. QED
    BY <1>e, <1>f, <2>1, <2>2
<1>8. ASSUME NEW verified \in BOOLEAN, NEW avatar \in Nameable(p), Create(p, a, verified, avatar)
      PROVE  BeginsUpload(p, a)
  <2> DEFINE entity == [NewUser EXCEPT !.verified = verified, !.password = Plain(p), !.bio = p,
                                       !.avatar = avatar]
  <2>1. entity \in Row /\ entity.avatar = avatar
    <3>1. avatar \in Named
      BY <1>i
    <3>2. entity \in Row
      BY <1>b, <1>c, <3>1, AssignedType
    <3>3. entity.avatar = avatar
      BY <1>b, <1>c, <1>h, <3>1
    <3>4. QED
      BY <3>2, <3>3
  <2>2. files' = files /\ Save(p, "create", a, "insert", entity)
    BY <1>8 DEF Create
  <2> HIDE DEF entity
  <2>3. QED
    BY <1>g, <2>1, <2>2
<1>9. CASE PatchProfile(p, a)
  <2> DEFINE entity == [Found(a) EXCEPT !.bio = p]
  <2>1. entity \in Row /\ entity.avatar = row[a].avatar
    BY <1>b, <1>c, <1>h, <1>i, AssignedType
  <2>2. files' = files /\ Save(p, "patchProfile", a, "load", entity)
    BY <1>9 DEF PatchProfile
  <2> HIDE DEF entity
  <2>3. QED
    BY <1>f, <2>1, <2>2
<1>10. ASSUME NEW avatar \in {row[a].avatar} \cup Nameable(p), PutProfile(p, a, avatar)
       PROVE  BeginsUpload(p, a)
  <2> DEFINE entity == [Found(a) EXCEPT !.bio = p, !.avatar = avatar]
  <2>1. entity \in Row /\ entity.avatar = avatar
    <3>1. avatar \in Named
      BY <1>i
    <3>2. entity \in Row
      BY <1>b, <1>c, <3>1, AssignedType
    <3>3. entity.avatar = avatar
      BY <1>b, <1>c, <1>h, <3>1
    <3>4. QED
      BY <3>2, <3>3
  <2>2. files' = files /\ Save(p, "putProfile", a, "load", entity)
    BY <1>10 DEF PutProfile
  <2> HIDE DEF entity
  <2>3. QED
    BY <1>f, <2>1, <2>2
<1>11. ASSUME NEW verified \in BOOLEAN, NEW password \in {NoPassword, Plain(p)},
              NEW avatar \in {row[a].avatar} \cup Nameable(p),
              PutUser(p, a, verified, password, avatar)
       PROVE  BeginsUpload(p, a)
  <2> DEFINE entity == [Found(a) EXCEPT !.bio = p, !.verified = verified, !.password = password,
                                        !.avatar = avatar]
  <2>1. entity \in Row /\ entity.avatar = avatar
    <3>1. avatar \in Named /\ password \in Password
      BY <1>c, <1>i
    <3>2. entity \in Row
      BY <1>b, <1>c, <3>1, AssignedType
    <3>3. entity.avatar = avatar
      BY <1>b, <1>c, <1>h, <3>1
    <3>4. QED
      BY <3>2, <3>3
  <2>2. files' = files /\ (Answer(p, "none", a, "400") \/ Save(p, "putUser", a, "load", entity))
    BY <1>11 DEF PutUser
  <2> HIDE DEF entity
  <2>3. QED
    BY <1>e, <1>f, <2>1, <2>2
<1>12. CASE UpdateSettings(p, a)
  <2> DEFINE entity == [Found(a) EXCEPT !.settings = Found(a).settings \cup {p}]
  <2>1. entity \in Row /\ entity.avatar = row[a].avatar
    BY <1>b, <1>c, <1>h, <1>i, AssignedType
  <2>2. files' = files /\ Save(p, "settings", a, "load", entity)
    BY <1>12 DEF UpdateSettings
  <2> HIDE DEF entity
  <2>3. QED
    BY <1>f, <2>1, <2>2
<1>13. CASE UploadAvatar(p, a)
  BY <1>13 DEF UploadAvatar, BeginsUpload
<1>14. QED
  BY <1>1, <1>2, <1>3, <1>4, <1>5, <1>6, <1>7, <1>8, <1>9, <1>10, <1>11, <1>12, <1>13
     DEF Start, AuthStep, UserStep, ProfileStep

(* What a row or an entity may name as its avatar: nothing, a string that a body   *)
(* brought, or the file of an upload that is over.                                *)
Taken(q) ==
    q = None \/ (q \in Requests /\ req[q].pc # "idle"
                 /\ (req[q].kind = "avatar" => req[q].pc = "done"))

(* What a request holds: an upload its own file, once it has done with the one it  *)
(* found; whoever else has an entity, an avatar that is no upload in progress.    *)
AvatarHeld(p, request) ==
    /\ request.code # "" => request.pc = "done"
    /\ request.pc = "unlink" => request.kind = "avatar"
    /\ request.pc = "insert" => request.kind # "avatar"
    /\ request.pc \in {"insert", "unlink"} => Taken(request.entity.avatar)
    /\ request.pc \in {"load", "write"} =>
          IF request.kind = "avatar" THEN request.entity.avatar = p
          ELSE Taken(request.entity.avatar)
    /\ request.pc = "write" => Taken(request.loaded.avatar)

AvatarsTaken ==
    /\ \A a \in Accounts : Taken(row[a].avatar)
    /\ \A p \in Requests :
          /\ AvatarHeld(p, req[p])
          /\ req[p].kind = "avatar" /\ req[p].pc \in {"unlink", "load", "write"} => p \in files

(* What is over remains over, and what a name stands for does not change. *)
LEMMA TakenStays ==
    ASSUME Inv, [Next]_vars, NEW q, Taken(q)
    PROVE  Taken(q)'
<1>a. TypeOK
  BY DEF Inv
<1>1. CASE q = None
  BY <1>1 DEF Taken
<1>2. CASE q # None
  <2>1. q \in Requests /\ req[q].pc # "idle" /\ (req[q].kind = "avatar" => req[q].pc = "done")
    BY <1>2 DEF Taken
  <2>2. req'[q].pc # "idle" /\ (req'[q].kind = "avatar" => req'[q].pc = "done")
    <3>1. ASSUME NEW p \in Requests, NEW b \in Accounts, Start(p, b) PROVE req'[q] = req[q]
      BY <1>a, <2>1, <3>1, StartType, OthersKept DEF Idle
    <3>2. ASSUME NEW p \in Requests, SaveStep(p)
          PROVE  req'[q].pc # "idle" /\ (req'[q].kind = "avatar" => req'[q].pc = "done")
      <4>1. CASE q # p
        BY <2>1, <3>2, <4>1, OthersKept
      <4>2. CASE q = p
        <5>a. /\ req[p] \in Request /\ req[p].kind \in Kinds /\ req[p].account \in Accounts
              /\ req \in [Requests -> Request]
          BY <1>a DEF TypeOK, Request, Kinds
        <5>1. CASE UnlinkAvatar(p) \/ LoadRow(p)
          <6>a. ASSUME UnlinkAvatar(p)
                PROVE  req'[p].kind = req[p].kind /\ req'[p].pc # "idle" /\ req[p].pc # "done"
            <7>1. req'[p].pc = "load" /\ req'[p].kind = req[p].kind /\ req[p].pc = "unlink"
              BY <5>a, <6>a DEF UnlinkAvatar, Request
            <7>2. QED
              BY <7>1
          <6>b. ASSUME LoadRow(p)
                PROVE  req'[p].kind = req[p].kind /\ req'[p].pc # "idle" /\ req[p].pc # "done"
            <7>1. req'[p].pc = "write" /\ req'[p].kind = req[p].kind /\ req[p].pc = "load"
              BY <5>a, <6>b DEF LoadRow, Request
            <7>2. QED
              BY <7>1
          <6>1. req'[p].kind = req[p].kind /\ req'[p].pc # "idle" /\ req[p].pc # "done"
            BY <5>1, <6>a, <6>b
          <6>2. QED
            BY <2>1, <4>2, <6>1
        <5>2. CASE Insert(p) \/ UpdateRow(p)
          <6>1. Saves(p) /\ req[p].pc # "done"
            BY <5>2 DEF Insert, UpdateRow
          <6>2. QED
            BY <1>a, <2>1, <4>2, <6>1, SavesSets
        <5>3. CASE SaveFails(p) \/ MailSent(p) \/ MailFails(p)
          <6>1. req'[p].pc = "done"
            BY <1>a, <5>a, <5>3, AnswerSets DEF SaveFails, MailSent, MailFails
          <6>2. QED
            BY <4>2, <6>1
        <5>4. CASE Expire(p)
          BY <2>1, <4>2, <5>4 DEF Expire
        <5>5. QED
          BY <3>2, <5>1, <5>2, <5>3, <5>4 DEF SaveStep
      <4>3. QED
        BY <4>1, <4>2
    <3>3. CASE UNCHANGED vars
      BY <2>1, <3>3 DEF vars
    <3>4. QED
      BY <2>1, <3>1, <3>2, <3>3 DEF Next, Start
  <2>3. QED
    BY <1>2, <2>1, <2>2 DEF Taken
<1>3. QED
  BY <1>1, <1>2

(* Every step keeps the uploads and their files in order.                         *)
LEMMA AvatarsNext == Inv /\ AvatarsTaken /\ [Next]_vars => AvatarsTaken'
<1> SUFFICES ASSUME Inv, AvatarsTaken, [Next]_vars PROVE AvatarsTaken'
  OBVIOUS
<1>a. TypeOK /\ TypeOK'
  BY TypeNext DEF Inv
<1>b. \A p \in Requests : /\ req[p] \in Request /\ req[p].account \in Accounts
                          /\ req[p].kind \in Kinds /\ req[p].entity \in Row
  BY <1>a DEF TypeOK, Request, Kinds
<1> DEFINE After(q) == q = None \/ (q \in Requests /\ req'[q].pc # "idle"
                                    /\ (req'[q].kind = "avatar" => req'[q].pc = "done"))
           Fine(p) ==
              /\ req'[p].code # "" => req'[p].pc = "done"
              /\ req'[p].pc = "unlink" => req'[p].kind = "avatar"
              /\ req'[p].pc = "insert" => req'[p].kind # "avatar"
              /\ req'[p].pc \in {"insert", "unlink"} => After(req'[p].entity.avatar)
              /\ req'[p].pc \in {"load", "write"} =>
                    IF req'[p].kind = "avatar" THEN req'[p].entity.avatar = p
                    ELSE After(req'[p].entity.avatar)
              /\ req'[p].pc = "write" => After(req'[p].loaded.avatar)
           Filed(p) == req'[p].kind = "avatar" /\ req'[p].pc \in {"unlink", "load", "write"} =>
                          p \in files'
<1>c. \A q : Taken(q) => After(q)
  BY TakenStays DEF Taken
<1>d. \A a \in Accounts : After(row[a].avatar)
  BY <1>c DEF AvatarsTaken
<1>f. ASSUME \A a \in Accounts : After(row'[a].avatar),
             \A p \in Requests : Fine(p) /\ Filed(p)
      PROVE  AvatarsTaken'
  BY <1>f DEF AvatarsTaken, AvatarHeld, Taken
<1> HIDE DEF After
(* What a step leaves of a request that does not move. *)
<1>g. ASSUME NEW q \in Requests, req'[q] = req[q]
      PROVE  Fine(q)
  <2>1. AvatarHeld(q, req[q])
    BY DEF AvatarsTaken
  <2>2. QED
    BY <1>c, <1>g, <2>1 DEF AvatarHeld
<1>h. ASSUME NEW p \in Requests, SaveStep(p) \/ \E a \in Accounts : Start(p, a),
             Fine(p), Filed(p), files \subseteq files',
             \A a \in Accounts : After(row'[a].avatar)
      PROVE  AvatarsTaken'
  <2>1. \A q \in Requests : q = p \/ req'[q] = req[q]
    BY <1>h, OthersKept
  <2>2. \A q \in Requests : Fine(q)
    BY <1>g, <1>h, <2>1
  <2>3. \A q \in Requests : Filed(q)
    BY <1>h, <2>1 DEF AvatarsTaken
  <2>4. QED
    BY <1>f, <1>h, <2>2, <2>3
<1>1. ASSUME NEW p \in Requests, NEW a \in Accounts, Start(p, a) PROVE AvatarsTaken'
  <2>1. Idle(p) /\ row' = row /\ BeginsUpload(p, a)
    BY <1>1, <1>a, StartType, StartUpload
  <2>2. ASSUME NEW kind \in Kinds \ {"avatar"}, NEW code \in {"200", "400", "500"},
               Answer(p, kind, a, code), files' = files
        PROVE  AvatarsTaken'
    <3>1. req'[p].pc = "done"
      BY <2>2, <1>a, AnswerSets
    <3>2. Fine(p) /\ Filed(p)
      BY <3>1
    <3>3. QED
      BY <1>1, <1>d, <1>h, <2>1, <2>2, <3>2
  <2>3. ASSUME NEW kind \in Kinds \ {"avatar"}, NEW pc \in {"insert", "load"}, NEW entity \in Row,
               Save(p, kind, a, pc, entity), files' = files,
               entity.avatar \in {row[a].avatar} \cup Nameable(p)
        PROVE  AvatarsTaken'
    <3>1. req'[p].pc = pc /\ req'[p].kind = kind /\ req'[p].entity = entity /\ req'[p].code = ""
      BY <2>3, <1>a DEF Save, TypeOK
    <3>2. After(entity.avatar)
      <4>1. CASE entity.avatar = row[a].avatar
        BY <1>d, <4>1
      <4>2. CASE entity.avatar = None
        BY <4>2 DEF After
      <4>3. CASE entity.avatar = p
        BY <2>3, <3>1, <4>3 DEF After
      <4>4. CASE entity.avatar \in files /\ req[entity.avatar].pc = "done"
        <5>1. Taken(entity.avatar)
          BY <1>a, <4>4 DEF Taken, TypeOK
        <5>2. QED
          BY <1>c, <5>1
      <4>5. QED
        BY <2>3, <4>1, <4>2, <4>3, <4>4 DEF Nameable
    <3>3. Fine(p) /\ Filed(p)
      BY <2>3, <3>1, <3>2
    <3>4. QED
      BY <1>1, <1>d, <1>h, <2>1, <2>3, <3>3
  <2>4. ASSUME files' = files \cup {p}, Save(p, "avatar", a, "unlink", Found(a))
        PROVE  AvatarsTaken'
    <3>1. /\ req'[p].pc = "unlink" /\ req'[p].kind = "avatar"
          /\ req'[p].entity = Found(a) /\ req'[p].code = ""
      BY <2>4, <1>a DEF Save, TypeOK
    <3>2. Found(a).avatar = row[a].avatar
      BY <1>a, FoundType DEF Found, Row
    <3>3. Fine(p) /\ Filed(p)
      BY <1>d, <2>4, <3>1, <3>2
    <3>4. QED
      BY <1>1, <1>d, <1>h, <2>1, <2>4, <3>3
  <2>5. QED
    BY <2>1, <2>2, <2>3, <2>4 DEF BeginsUpload
<1>2. ASSUME NEW p \in Requests, SaveStep(p) PROVE AvatarsTaken'
  <2>a. \A q \in Requests : q = p \/ req'[q] = req[q]
    BY <1>2, OthersKept
  <2>b. AvatarHeld(p, req[p])
    BY DEF AvatarsTaken
  <2>c. req[p] \in Request /\ req \in [Requests -> Request]
    BY <1>a DEF TypeOK
  <2> DEFINE b == req[p].account
  <2>1. CASE UnlinkAvatar(p)
    <3>1. /\ req[p].pc = "unlink" /\ req'[p].pc = "load" /\ req'[p].kind = req[p].kind
          /\ req'[p].code = req[p].code
          /\ req'[p].entity = [req[p].entity EXCEPT !.avatar = p]
          /\ row' = row
      BY <2>1, <2>c DEF UnlinkAvatar, Request
    <3>2. req'[p].entity.avatar = p
      BY <1>b, <3>1 DEF Row
    <3>3. Fine(p)
      BY <2>b, <3>1, <3>2 DEF AvatarHeld
    <3>4. \A q \in Requests : Fine(q)
      BY <1>g, <2>a, <3>3
    <3>5. ASSUME NEW q \in Requests PROVE Filed(q)
      <4>1. req'[q].kind = "avatar" /\ req'[q].pc \in {"unlink", "load", "write"} =>
               q \in files /\ req[q].kind = "avatar" /\ req[q].pc # "done"
        BY <2>a, <3>1 DEF AvatarsTaken
      <4>2. req[p].entity.avatar = q => (req[q].kind = "avatar" => req[q].pc = "done")
        BY <2>b, <3>1, NoneAssumption DEF AvatarHeld, Taken
      <4>3. QED
        BY <2>1, <4>1, <4>2 DEF UnlinkAvatar
    <3>6. QED
      BY <1>d, <1>f, <3>1, <3>4, <3>5
  <2>2. CASE Insert(p)
    <3>1. /\ Saves(p) /\ files' = files /\ req[p].pc = "insert"
          /\ row' = [row EXCEPT ![b] =
                       [req[p].entity EXCEPT !.password = HashPassword(req[p].entity.password)]]
      BY <2>2 DEF Insert
    <3>2. row'[b].avatar = req[p].entity.avatar /\ \A a \in Accounts : a = b \/ row'[a] = row[a]
      BY <1>a, <1>b, <3>1 DEF TypeOK, Row
    <3>3. After(req[p].entity.avatar)
      BY <1>c, <2>b, <3>1 DEF AvatarHeld
    <3>4. \A a \in Accounts : After(row'[a].avatar)
      BY <1>d, <3>2, <3>3
    <3>5. Fine(p) /\ Filed(p)
      BY <1>a, <3>1, SavesSets
    <3>6. QED
      BY <1>2, <1>h, <3>1, <3>4, <3>5
  <2>3. CASE LoadRow(p)
    <3>1. /\ req[p].pc = "load" /\ req'[p].pc = "write" /\ req'[p].kind = req[p].kind
          /\ req'[p].code = req[p].code /\ req'[p].entity = req[p].entity
          /\ req'[p].loaded = row[b] /\ UNCHANGED <<row, files>>
      BY <2>3, <2>c DEF LoadRow, Request
    <3>2. Fine(p)
      BY <1>b, <1>c, <1>d, <2>b, <3>1 DEF AvatarHeld
    <3>3. Filed(p)
      BY <3>1 DEF AvatarsTaken
    <3>4. QED
      BY <1>2, <1>d, <1>h, <3>1, <3>2, <3>3
  <2>4. CASE UpdateRow(p)
    <3>1. /\ Saves(p) /\ files' = files /\ req[p].pc = "write"
          /\ row' = [row EXCEPT ![b] = SavedRow(row[b], req[p].loaded, req[p].entity)]
      BY <2>4 DEF UpdateRow
    <3>2. /\ row'[b].avatar \in {row[b].avatar, req[p].entity.avatar}
          /\ \A a \in Accounts : a = b \/ row'[a] = row[a]
      BY <1>a, <1>b, <3>1 DEF SavedRow, SavedColumn, TypeOK
    <3>3. After(req[p].entity.avatar)
      <4>1. CASE req[p].kind = "avatar"
        <5>1. req[p].entity.avatar = p
          BY <2>b, <3>1, <4>1 DEF AvatarHeld
        <5>2. req'[p].pc = "done"
          BY <1>a, <3>1, <4>1, SavesSets DEF Mailing
        <5>3. QED
          BY <5>1, <5>2 DEF After
      <4>2. CASE req[p].kind # "avatar"
        BY <1>c, <2>b, <3>1, <4>2 DEF AvatarHeld
      <4>3. QED
        BY <4>1, <4>2
    <3>4. \A a \in Accounts : After(row'[a].avatar)
      BY <1>b, <1>d, <3>2, <3>3
    <3>5. Fine(p) /\ Filed(p)
      BY <1>a, <3>1, SavesSets
    <3>6. QED
      BY <1>2, <1>h, <3>1, <3>4, <3>5
  <2>5. CASE SaveFails(p) \/ MailSent(p) \/ MailFails(p)
    <3>1. req'[p].pc = "done" /\ UNCHANGED <<row, files>>
      BY <2>5, <1>a, <1>b, AnswerSets DEF SaveFails, MailSent, MailFails
    <3>2. Fine(p) /\ Filed(p)
      BY <3>1
    <3>3. QED
      BY <1>2, <1>d, <1>h, <3>1, <3>2
  <2>6. CASE Expire(p)
    <3>1. UNCHANGED <<row, req, files>>
      BY <2>6 DEF Expire
    <3>2. Fine(p) /\ Filed(p)
      BY <1>g, <3>1 DEF AvatarsTaken
    <3>3. QED
      BY <1>2, <1>d, <1>h, <3>1, <3>2
  <2>7. QED
    BY <1>2, <2>1, <2>2, <2>3, <2>4, <2>5, <2>6 DEF SaveStep
<1>3. CASE UNCHANGED vars
  <2>1. UNCHANGED <<row, req, files>>
    BY <1>3 DEF vars
  <2>2. \A p \in Requests : Fine(p) /\ Filed(p)
    BY <1>g, <2>1 DEF AvatarsTaken
  <2>3. QED
    BY <1>d, <1>f, <2>1, <2>2
<1>4. QED
  BY <1>1, <1>2, <1>3 DEF Next, Start

(* An upload that is answered with success is at that moment the account's avatar  *)
(* and has its file, whatever uploads and names the requests around it: nobody     *)
(* else can have named it yet, so no save takes it for unchanged and nobody's      *)
(* unlink takes its file.                                                          *)
THEOREM UploadIsStoredHolds == Spec => UploadIsStored
<1>1. Init => AvatarsTaken
  <2>1. ASSUME Init PROVE AvatarsTaken
    <3>1. \A p \in Requests : req[p].pc = "idle" /\ req[p].kind = "none" /\ req[p].code = ""
      BY <2>1 DEF Init
    <3>2. \A a \in Accounts : row[a].avatar = None
      BY <2>1 DEF Init, NewUser
    <3>3. QED
      BY <3>1, <3>2 DEF AvatarsTaken, AvatarHeld, Taken
  <2>2. QED
    BY <2>1
<1>2. ASSUME Inv, AvatarsTaken, [Next]_vars, NEW p \in Requests, req[p].kind = "avatar",
             req[p].pc = "write", req'[p].code = "200"
      PROVE  row'[req[p].account].avatar = p /\ p \in files'
  <2>a. TypeOK
    BY <1>2 DEF Inv
  <2>b. /\ req[p] \in Request /\ req[p].account \in Accounts /\ req[p].kind \in Kinds
        /\ AvatarHeld(p, req[p]) /\ p \in files
    BY <1>2, <2>a DEF TypeOK, Request, Kinds, AvatarsTaken
  <2>c. req[p].code = ""
    BY <1>2, <2>b DEF AvatarHeld
  <2>1. UpdateRow(p)
    <3>1. ASSUME NEW q \in Requests, NEW a \in Accounts, Start(q, a) PROVE FALSE
      BY <1>2, <2>a, <2>c, <3>1, StartType, OthersKept DEF Idle
    <3>2. ASSUME NEW q \in Requests, SaveStep(q) PROVE UpdateRow(p)
      <4>1. q = p
        BY <1>2, <2>c, <3>2, OthersKept
      <4>2. ~Expire(p)
        BY <1>2, <2>c DEF Expire
      <4>3. ~SaveFails(p)
        BY <1>2, <2>a, <2>b, AnswerSets DEF SaveFails
      <4>4. QED
        BY <1>2, <3>2, <4>1, <4>2, <4>3
           DEF SaveStep, UnlinkAvatar, Insert, LoadRow, MailSent, MailFails
    <3>3. ~UNCHANGED vars
      BY <1>2, <2>c DEF vars
    <3>4. QED
      BY <1>2, <3>1, <3>2, <3>3 DEF Next, Start
  <2> DEFINE b == req[p].account
  <2>2. /\ row' = [row EXCEPT ![b] = SavedRow(row[b], req[p].loaded, req[p].entity)]
        /\ files' = files
    BY <2>1 DEF UpdateRow
  <2>3. row'[b].avatar = SavedColumn(row[b].avatar, req[p].loaded.avatar, req[p].entity.avatar)
    BY <2>a, <2>b, <2>2 DEF SavedRow, TypeOK
  <2>4. req[p].entity.avatar = p /\ req[p].loaded.avatar # p
    BY <1>2, <2>b, NoneAssumption DEF AvatarHeld, Taken
  <2>5. QED
    BY <2>b, <2>2, <2>3, <2>4 DEF SavedColumn
<1>3. Inv /\ AvatarsTaken /\ [Next]_vars =>
        [\A p \in Requests :
           req[p].kind = "avatar" /\ req[p].pc = "write" /\ req'[p].code = "200" =>
              row'[req[p].account].avatar = p /\ p \in files']_vars
  BY <1>2
<1>4. QED
  BY <1>1, <1>3, InvInit, InvNext, AvatarsNext, PTL DEF Spec, UploadIsStored
================================================================================
