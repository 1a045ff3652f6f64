------------------------------- MODULE Accounts -------------------------------
(***************************************************************************)
(* The users table and the requests that write it: AuthService, the        *)
(* UsersController and the ProfileService.  Each of them finds a row,      *)
(* changes the entity it got, and saves that entity some awaits later;     *)
(* other requests for the same account run in between, statements and      *)
(* mails fail and the process may stop.                                    *)
(*                                                                         *)
(* A request is made once.  What it draws or brings that nobody else does  *)
(* is named by the request itself: its uuid token, the file it uploads,    *)
(* the password, setting or text in its body.  An account is the user of   *)
(* one e-mail address and username, which PUT and PATCH may change only to *)
(* free ones; bio stands for all the plain profile columns.  JwtAuthGuard  *)
(* lets in who has a token signed with JWT_SECRET: signed elsewhere, for   *)
(* no request of this program gets one (NoOneLogsIn).                      *)
(***************************************************************************)
EXTENDS Naturals, EntitySave

CONSTANTS
    Accounts,       \* users
    Requests,       \* HTTP requests
    None            \* null

ASSUME NoneAssumption == None \notin Requests

VARIABLES
    registered,     \* accounts that have a row
    row,            \* the users table
    req,            \* requests
    mailed,         \* requests whose mail went out
    expired,        \* requests whose token's time is over
    files,          \* requests whose upload is in the avatar directory
    \* History variable, read by properties only.
    overlapped      \* requests during whose read and write another one wrote the row

vars == <<registered, row, req, mailed, expired, files, overlapped>>

Named == Requests \cup {None}

\* A password: the request that named it, and how often it went through bcrypt.
Password == [by : Named, hashes : Nat]
NoPassword == [by |-> None, hashes |-> 0]
Plain(p) == [by |-> p, hashes |-> 0]
Hash(password) == [password EXCEPT !.hashes = @ + 1]

Row == [verified : BOOLEAN, verifyToken : Named, resetToken : Named, refreshToken : Named,
        password : Password, bio : Named, settings : SUBSET Requests, avatar : Named]

NewUser == [verified |-> FALSE, verifyToken |-> None, resetToken |-> None,
            refreshToken |-> None, password |-> NoPassword,
            bio |-> None, settings |-> {}, avatar |-> None]

AuthRequests == {"register", "login", "refresh", "verify", "resend",
                 "changePassword", "forgot", "reset"}
UserRequests == {"create", "putProfile", "putUser"}
ProfileRequests == {"patchProfile", "settings", "avatar"}

\* "load" and "write" are the two statements of a save of an existing row.  A
\* request that changes nothing is of no kind.
Request == [pc : {"idle", "insert", "unlink", "load", "write", "mail", "done"},
            kind : {"none"} \cup AuthRequests \cup UserRequests \cup ProfileRequests,
            account : Accounts, entity : Row, loaded : Row,
            code : {"", "200", "400", "500"}]

Init ==
    /\ registered = {}
    /\ row = [a \in Accounts |-> NewUser]
    /\ req \in [Requests -> [pc : {"idle"}, kind : {"none"}, account : Accounts,
                             entity : {NewUser}, loaded : {NewUser}, code : {""}]]
    /\ mailed = {}
    /\ expired = {}
    /\ files = {}
    /\ overlapped = {}

------------------------------------------------------------------------------
(* Finding and saving a user. *)

\* Variant: the password column is selected like the others.
FoundWithPassword(a) == row[a]

\* What findOne and find return: the password is not selected.
Found(a) == [row[a] EXCEPT !.password = NoPassword]

\* bcrypt.compare rejects when it is given no hash.
ValidatePassword(user, given) ==
    IF user.password = NoPassword THEN "rejects"
    ELSE IF user.password = Hash(Plain(given)) THEN "yes" ELSE "no"

Idle(p) == req[p].pc = "idle"

\* Request p is answered, and its entity is gone,
Answer(p, kind, a, code) ==
    req' = [req EXCEPT ![p] = [pc |-> "done", kind |-> kind, account |-> a,
                               entity |-> NewUser, loaded |-> NewUser, code |-> code]]

\* or has an entity to save.
Save(p, kind, a, pc, entity) ==
    req' = [req EXCEPT ![p] = [pc |-> pc, kind |-> kind, account |-> a,
                               entity |-> entity, loaded |-> NewUser, code |-> ""]]

\* The BeforeInsert and BeforeUpdate hook of the entity that is saved.
HashPassword(password) == IF password = NoPassword THEN password ELSE Hash(password)

\* Variant: the hash of an entity without a password replaces the row's.
SavedRowOverwriting(inRow, loaded, entity) ==
    [verified |-> SavedColumn(inRow.verified, loaded.verified, entity.verified),
     verifyToken |-> SavedColumn(inRow.verifyToken, loaded.verifyToken, entity.verifyToken),
     resetToken |-> SavedColumn(inRow.resetToken, loaded.resetToken, entity.resetToken),
     refreshToken |-> SavedColumn(inRow.refreshToken, loaded.refreshToken, entity.refreshToken),
     password |-> HashPassword(entity.password),
     bio |-> SavedColumn(inRow.bio, loaded.bio, entity.bio),
     settings |-> SavedColumn(inRow.settings, loaded.settings, entity.settings),
     avatar |-> SavedColumn(inRow.avatar, loaded.avatar, entity.avatar)]

\* An entity without a password leaves the row's.
SavedRow(inRow, loaded, entity) ==
    [verified |-> SavedColumn(inRow.verified, loaded.verified, entity.verified),
     verifyToken |-> SavedColumn(inRow.verifyToken, loaded.verifyToken, entity.verifyToken),
     resetToken |-> SavedColumn(inRow.resetToken, loaded.resetToken, entity.resetToken),
     refreshToken |-> SavedColumn(inRow.refreshToken, loaded.refreshToken, entity.refreshToken),
     password |-> IF entity.password = NoPassword THEN inRow.password
                  ELSE HashPassword(entity.password),
     bio |-> SavedColumn(inRow.bio, loaded.bio, entity.bio),
     settings |-> SavedColumn(inRow.settings, loaded.settings, entity.settings),
     avatar |-> SavedColumn(inRow.avatar, loaded.avatar, entity.avatar)]

------------------------------------------------------------------------------
(* AuthService *)

Register(p, a) ==
    /\ Idle(p)
    /\ IF a \in registered
         THEN Answer(p, "none", a, "400")
         ELSE Save(p, "register", a, "insert",
                   [NewUser EXCEPT !.verifyToken = p, !.password = Plain(p)])
    /\ UNCHANGED <<registered, row, mailed, expired, files, overlapped>>

\* What login and changePassword answer instead of going on, if anything.
PasswordRefused(a, given) ==
    IF a \notin registered THEN "400"
    ELSE CASE ValidatePassword(Found(a), given) = "rejects" -> "500"
           [] ValidatePassword(Found(a), given) = "no" -> "400"
           [] OTHER -> ""

Login(p, a, given) ==
    LET refused == IF PasswordRefused(a, given) = "" /\ ~row[a].verified
                   THEN "400" ELSE PasswordRefused(a, given) IN
    /\ Idle(p)
    /\ IF refused # ""
         THEN Answer(p, "none", a, refused)
         ELSE Save(p, "login", a, "load", [Found(a) EXCEPT !.refreshToken = p])
    /\ UNCHANGED <<registered, row, mailed, expired, files, overlapped>>

\* a is the account that has the token, if one has it.
Refresh(p, a, token) ==
    /\ Idle(p)
    /\ IF row[a].refreshToken # token \/ token \in expired
         THEN Answer(p, "none", a, "400")
         ELSE Save(p, "refresh", a, "load", [Found(a) EXCEPT !.refreshToken = p])
    /\ UNCHANGED <<registered, row, mailed, expired, files, overlapped>>

VerifyEmail(p, a, token) ==
    /\ Idle(p)
    /\ IF row[a].verifyToken # token \/ token \in expired \/ row[a].verified
         THEN Answer(p, "none", a, "400")
         ELSE Save(p, "verify", a, "load",
                   [Found(a) EXCEPT !.verified = TRUE, !.verifyToken = None])
    /\ UNCHANGED <<registered, row, mailed, expired, files, overlapped>>

ResendVerificationEmail(p, a) ==
    /\ Idle(p)
    /\ IF a \notin registered \/ row[a].verified
         THEN Answer(p, "none", a, "400")
         ELSE Save(p, "resend", a, "load", [Found(a) EXCEPT !.verifyToken = p])
    /\ UNCHANGED <<registered, row, mailed, expired, files, overlapped>>

ChangePassword(p, a, given) ==
    /\ Idle(p)
    /\ IF PasswordRefused(a, given) # ""
         THEN Answer(p, "none", a, PasswordRefused(a, given))
         ELSE Save(p, "changePassword", a, "load",
                   [Found(a) EXCEPT !.password = Hash(Plain(p))])
    /\ UNCHANGED <<registered, row, mailed, expired, files, overlapped>>

\* An unknown address is answered like a known one.
RequestPasswordReset(p, a) ==
    /\ Idle(p)
    /\ IF a \notin registered
         THEN Answer(p, "none", a, "200")
         ELSE Save(p, "forgot", a, "load", [Found(a) EXCEPT !.resetToken = p])
    /\ UNCHANGED <<registered, row, mailed, expired, files, overlapped>>

\* Variant: the token is not cleared.
ResetPasswordKeepingToken(p, a, token) ==
    /\ Idle(p)
    /\ IF row[a].resetToken # token \/ token \in expired
         THEN Answer(p, "none", a, "400")
         ELSE Save(p, "reset", a, "load", [Found(a) EXCEPT !.password = Hash(Plain(p))])
    /\ UNCHANGED <<registered, row, mailed, expired, files, overlapped>>

\* The new password is hashed here, and once more by the hook of the save.
ResetPassword(p, a, token) ==
    /\ Idle(p)
    /\ IF row[a].resetToken # token \/ token \in expired
         THEN Answer(p, "none", a, "400")
         ELSE Save(p, "reset", a, "load",
                   [Found(a) EXCEPT !.password = Hash(Plain(p)), !.resetToken = None])
    /\ UNCHANGED <<registered, row, mailed, expired, files, overlapped>>

------------------------------------------------------------------------------
(* UsersController *)

\* The avatar in a body: null or any string, one of its own or the name of a file that
\* an answered upload left.
Nameable(p) == {None, p} \cup {q \in files : req[q].pc = "done"}

\* POST /users does not ask whether the user exists, and mails no link.
Create(p, a, verified, avatar) ==
    /\ Idle(p)
    /\ Save(p, "create", a, "insert",
            [NewUser EXCEPT !.verified = verified, !.password = Plain(p), !.bio = p,
                            !.avatar = avatar])
    /\ UNCHANGED <<registered, row, mailed, expired, files, overlapped>>

PutProfile(p, a, avatar) ==
    /\ Idle(p)
    /\ a \in registered
    /\ Save(p, "putProfile", a, "load", [Found(a) EXCEPT !.bio = p, !.avatar = avatar])
    /\ UNCHANGED <<registered, row, mailed, expired, files, overlapped>>

\* Variant: what the body leaves out is assigned as null.
PutUserAssigningNull(p, a, verified, password, avatar) ==
    /\ Idle(p)
    /\ IF a \notin registered
         THEN Answer(p, "none", a, "400")
         ELSE Save(p, "putUser", a, "load",
                   [Found(a) EXCEPT !.bio = p, !.verified = None, !.password = password,
                                    !.avatar = avatar])
    /\ UNCHANGED <<registered, row, mailed, expired, files, overlapped>>

\* PUT /users/:id may also set isEmailVerified and the password.
PutUser(p, a, verified, password, avatar) ==
    /\ Idle(p)
    /\ IF a \notin registered
         THEN Answer(p, "none", a, "400")
         ELSE Save(p, "putUser", a, "load",
                   [Found(a) EXCEPT !.bio = p, !.verified = verified, !.password = password,
                                    !.avatar = avatar])
    /\ UNCHANGED <<registered, row, mailed, expired, files, overlapped>>

------------------------------------------------------------------------------
(* ProfileService *)

PatchProfile(p, a) ==
    /\ Idle(p)
    /\ a \in registered
    /\ Save(p, "patchProfile", a, "load", [Found(a) EXCEPT !.bio = p])
    /\ UNCHANGED <<registered, row, mailed, expired, files, overlapped>>

\* The settings are one column, merged in the entity.
UpdateSettings(p, a) ==
    /\ Idle(p)
    /\ a \in registered
    /\ Save(p, "settings", a, "load", [Found(a) EXCEPT !.settings = @ \cup {p}])
    /\ UNCHANGED <<registered, row, mailed, expired, files, overlapped>>

\* The file is stored before the service runs, which finds the user and
UploadAvatar(p, a) ==
    /\ Idle(p)
    /\ a \in registered
    /\ files' = files \cup {p}
    /\ Save(p, "avatar", a, "unlink", Found(a))
    /\ UNCHANGED <<registered, row, mailed, expired, overlapped>>

\* Variant: the file of the new avatar is removed.
UnlinkNewAvatar(p) ==
    /\ req[p].pc = "unlink"
    /\ files' \in {files, files \ {p}}
    /\ req' = [req EXCEPT ![p].pc = "load", ![p].entity.avatar = p]
    /\ UNCHANGED <<registered, row, mailed, expired, overlapped>>

\* removes the file of the avatar it found, if there is one and unless that fails.
UnlinkAvatar(p) ==
    /\ req[p].pc = "unlink"
    /\ files' \in {files, files \ {req[p].entity.avatar}}
    /\ req' = [req EXCEPT ![p].pc = "load", ![p].entity.avatar = p]
    /\ UNCHANGED <<registered, row, mailed, expired, overlapped>>

------------------------------------------------------------------------------
(* The save and what follows it. *)

\* Variant: a new link is stored and not mailed.
MailingOnRegister == {"register"}

Mailing == {"register", "resend", "forgot"}

\* Where a request goes when its entity is saved.
Saves(p) ==
    IF req[p].kind \in Mailing
    THEN Save(p, req[p].kind, req[p].account, "mail", NewUser)
    ELSE Answer(p, req[p].kind, req[p].account, "200")

Insert(p) ==
    /\ req[p].pc = "insert"
    /\ req[p].account \notin registered
    /\ registered' = registered \cup {req[p].account}
    /\ row' = [row EXCEPT ![req[p].account] =
                 [req[p].entity EXCEPT !.password = HashPassword(@)]]
    /\ Saves(p)
    /\ UNCHANGED <<mailed, expired, files, overlapped>>

LoadRow(p) ==
    /\ req[p].pc = "load"
    /\ req' = [req EXCEPT ![p].pc = "write", ![p].loaded = row[req[p].account]]
    /\ UNCHANGED <<registered, row, mailed, expired, files, overlapped>>

\* Requests that hold the entity of account a while p writes it.
Holding(p, a) ==
    {q \in Requests \ {p} : req[q].account = a /\ req[q].pc \in {"unlink", "load", "write"}}

UpdateRow(p) ==
    LET a == req[p].account IN
    /\ req[p].pc = "write"
    /\ row' = [row EXCEPT ![a] = SavedRow(@, req[p].loaded, req[p].entity)]
    /\ overlapped' = overlapped \cup Holding(p, a)
    /\ Saves(p)
    /\ UNCHANGED <<registered, mailed, expired, files>>

\* A statement fails (an INSERT also for a name that is taken), or the process
\* stops before it.
SaveFails(p) ==
    /\ req[p].pc \in {"insert", "unlink", "load", "write"}
    /\ Answer(p, req[p].kind, req[p].account, "500")
    /\ UNCHANGED <<registered, row, mailed, expired, files, overlapped>>

MailSent(p) ==
    /\ req[p].pc = "mail"
    /\ mailed' = mailed \cup {p}
    /\ Answer(p, req[p].kind, req[p].account, "200")
    /\ UNCHANGED <<registered, row, expired, files, overlapped>>

\* The row stays as it was saved.
MailFails(p) ==
    /\ req[p].pc = "mail"
    /\ Answer(p, req[p].kind, req[p].account, "500")
    /\ UNCHANGED <<registered, row, mailed, expired, files, overlapped>>

\* The 24 hours, the hour or the 7 days of a token that a row holds are over.
Expire(p) ==
    /\ \E a \in Accounts : p \in {row[a].verifyToken, row[a].resetToken, row[a].refreshToken}
    /\ p \notin expired
    /\ expired' = expired \cup {p}
    /\ UNCHANGED <<registered, row, req, mailed, files, overlapped>>

------------------------------------------------------------------------------
AuthStep(p, a) ==
    \/ Register(p, a)
    \/ ResendVerificationEmail(p, a)
    \/ RequestPasswordReset(p, a)
    \/ \E named \in Requests : \/ Login(p, a, named)
                             \/ ChangePassword(p, a, named)
                             \/ Refresh(p, a, named)
                             \/ VerifyEmail(p, a, named)
                             \/ ResetPassword(p, a, named)

UserStep(p, a) ==
    \/ \E verified \in BOOLEAN, avatar \in Nameable(p) : Create(p, a, verified, avatar)
    \/ \E avatar \in {row[a].avatar} \cup Nameable(p) :
          \/ PutProfile(p, a, avatar)
          \/ \E verified \in BOOLEAN, password \in {NoPassword, Plain(p)} :
                PutUser(p, a, verified, password, avatar)

ProfileStep(p, a) ==
    \/ PatchProfile(p, a)
    \/ UpdateSettings(p, a)
    \/ UploadAvatar(p, a)

SaveStep(p) ==
    \/ UnlinkAvatar(p)
    \/ Insert(p)
    \/ LoadRow(p)
    \/ UpdateRow(p)
    \/ SaveFails(p)
    \/ MailSent(p)
    \/ MailFails(p)
    \/ Expire(p)

Next ==
    \E p \in Requests :
       \/ \E a \in Accounts : AuthStep(p, a) \/ UserStep(p, a) \/ ProfileStep(p, a)
       \/ SaveStep(p)

Spec == Init /\ [][Next]_vars

------------------------------------------------------------------------------
(* Properties. *)

TypeOK ==
    /\ registered \subseteq Accounts
    /\ row \in [Accounts -> Row]
    /\ req \in [Requests -> Request]
    /\ mailed \subseteq Requests
    /\ expired \subseteq Requests
    /\ files \subseteq Requests
    /\ overlapped \subseteq Requests

\* No request ever stores a refresh token or answers login, refresh or
\* change-password with success: the password they compare with is never selected.
NoOneLogsIn ==
    /\ \A a \in Accounts : row[a].refreshToken = None
    /\ \A p \in Requests :
          req[p].kind \in {"login", "refresh", "changePassword"} => req[p].code # "200"

\* What the clients' examples say: who has verified the address and gives the right
\* password is let in.
CorrectCredentialsLogIn ==
    \A a \in registered, given \in Requests :
       row[a].verified /\ row[a].password = Hash(Plain(given)) => PasswordRefused(a, given) = ""

\* However stale the entity that a request saves, it leaves the password alone
\* unless the request names one, which is then the password: a password that was
\* reset or replaced never returns.
OldPasswordNeverReturns ==
    [][\A a \in registered : row'[a].password # row[a].password =>
          \E p \in Requests : req[p].pc = "write" /\ req'[p].pc # "write"
                             /\ row'[a].password.by = p]_vars

\* What request p is there to do to a row r.  A password that is reset is hashed
\* twice.
Asked(p, kind, entity, r) ==
    CASE kind = "verify" -> [r EXCEPT !.verified = TRUE, !.verifyToken = None]
      [] kind = "resend" -> [r EXCEPT !.verifyToken = p]
      [] kind = "forgot" -> [r EXCEPT !.resetToken = p]
      [] kind = "reset" ->
           [r EXCEPT !.resetToken = None, !.password = [by |-> p, hashes |-> 2]]
      [] kind = "patchProfile" -> [r EXCEPT !.bio = p]
      [] kind = "putProfile" -> [r EXCEPT !.bio = p, !.avatar = entity.avatar]
      [] kind = "putUser" ->
           [r EXCEPT !.bio = p, !.avatar = entity.avatar, !.verified = entity.verified,
                     !.password = IF entity.password = NoPassword THEN @
                                  ELSE [by |-> p, hashes |-> 1]]
      [] kind = "settings" -> [r EXCEPT !.settings = @ \cup {p}]
      [] kind = "avatar" -> [r EXCEPT !.avatar = p]

\* A request during which nobody else wrote the row changes it as it is there to
\* do, and in nothing else: whatever is lost (a verification, a new link, a
\* setting) or returns (a used link), is so because two requests overlapped.
SaveIsExact ==
    [][\A p \in Requests \ overlapped :
          req[p].pc = "write" /\ req'[p].pc # "write" /\ req'[p].code # "500" =>
             row'[req[p].account] =
                Asked(p, req[p].kind, req[p].entity, row[req[p].account])]_vars

\* The row holds no link that its owner has not got, cannot expect, and was not
\* told about by an error.
LinkIsMailed ==
    \A a \in Accounts, p \in Requests :
       p \in {row[a].verifyToken, row[a].resetToken} =>
          p \in mailed \/ req[p].pc = "mail" \/ req[p].code = "500"

\* An upload that is answered with success is at that moment the account's avatar
\* and has its file, whatever uploads and names the requests around it.
UploadIsStored ==
    [][\A p \in Requests :
          req[p].kind = "avatar" /\ req[p].pc = "write" /\ req'[p].code = "200" =>
             row'[req[p].account].avatar = p /\ p \in files']_vars

==============================================================================
