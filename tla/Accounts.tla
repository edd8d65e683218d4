------------------------------- MODULE Accounts -------------------------------
(***************************************************************************)
(* The drivers table behind /api/auth (usecase/auth_usecase.go,            *)
(* handler/auth_handler.go, repository/d1/driver_repo.go): registration,   *)
(* login, /me, and the session a browser holds after a login.  Each        *)
(* request makes one D1 call, whose answer may be lost or nonsense.        *)
(*                                                                         *)
(* A person is the password only they know; argon2id is taken at its word. *)
(* Validation is over before the call, and the token's lifetime and its    *)
(* revocation are Session.tla's.                                           *)
(***************************************************************************)
EXTENDS D1Client, FiniteSets

CONSTANTS
    Person,     \* people with a browser
    Address,    \* e-mail addresses, each of which can be typed in any case
    Driver,     \* the ids NewID can give to drivers
    Unborn,     \* state of an id not used yet
    NoSession   \* a browser without the auth cookie

Role == {"driver", "manager"}

Spelling == {"as stored", "Otherwise"}

Email == Address \X Spelling

\* domain.Driver, less its time stamps.
Account == [id : Driver, email : Email, password : Person, role : Role]

Token == [sub : Driver, role : Role]

ASSUME AccountsAssumption ==
    /\ Unborn \notin Account
    /\ NoSession \notin Token

VARIABLES
    account,    \* the drivers table: a row or Unborn for each id
    session,    \* session[p]: the claims of the token in p's browser
    answer      \* history: what the last answer says of the tables

accountVars == <<account, session>>

AccountsTypeOK ==
    /\ account \in [Driver -> Account \cup {Unborn}]
    /\ session \in [Person -> Token \cup {NoSession}]

\* Answers that claim nothing: 400, 401 without a session, 403, 500, 200 of a
\* logout.
Silent == [status |-> 500, of |-> "nothing"]

Says(status, of, about) == [status |-> status, of |-> of, about |-> about]

AccountsInit ==
    /\ account = [d \in Driver |-> Unborn]
    /\ session = [p \in Person |-> NoSession]
    /\ answer = Silent

-----------------------------------------------------------------------------
Canonical_AsTyped(email) == email

\* strings.ToLower(strings.TrimSpace(email)).
Canonical(email) == <<email[1], "as stored">>

Registered == {d \in Driver : account[d] # Unborn}

\* email UNIQUE.
EmailFree(email) == \A d \in Registered : account[d].email # email

\* A row of the table as JSON.
DriverLine(a) ==
    [id |-> Text(a.id), email |-> Text(a.email), password_hash |-> Text(a.password),
     name |-> Text("a name"), role |-> Text(a.role),
     created_at |-> Number(0), updated_at |-> Number(0)]

\* The answer's rows to a SELECT of the accounts that `ids` holds.
Lines(ids) == SetToSeq({DriverLine(account[d]) : d \in ids})

\* scanDriver's destinations, in the order of driverColumnList.
DriverDests == <<"int64", "string", "string", "string", "string", "string", "int64">>

\* isNoRowsErr, in the two ways that GetBy... and Get return an error.
NotFoundOr(error) == [error |-> IF error = "no rows" THEN "not found" ELSE "internal"]

\* GetByEmail, GetByID: the account, or an error.
DriverRow(a) ==
    IF QueryRow(a) # "ok" THEN NotFoundOr(QueryRow(a))
    ELSE IF ~Scans(Query(a)[1], DriverDests) THEN NotFoundOr("scan")
    ELSE LET s == Scanned(Query(a)[1], DriverDests)
         IN  [error |-> "none",
              account |-> [id |-> s[3], email |-> s[2], password |-> s[5], role |-> s[6]]]

\* POST /api/auth/register: Create's one INSERT, under a fresh id.
RegisterAnswer(a, new) ==
    IF Exec(a) = "ok" THEN Says(201, "account", new)
    ELSE IF Violates(a, "drivers.email") THEN Says(409, "email", new.email)
    ELSE Silent

\* Register's new row.
New(p, d, email, role) == [id |-> d, email |-> Canonical(email), password |-> p, role |-> role]

\* The INSERT runs, and the answer to it is told or lost;
Register(p, d, email, role) ==
    LET new == New(p, d, email, role) IN
    /\ account[d] = Unborn
    /\ EmailFree(new.email)
    /\ account' = [account EXCEPT ![d] = new]
    /\ answer' \in {RegisterAnswer(a, new) : a \in Ran(<<>>) \cup Garbled}
    /\ UNCHANGED session

\* or the email is taken: 409, unless the message is lost;
RegisterConflict(p, d, email, role) ==
    LET new == New(p, d, email, role) IN
    /\ account[d] = Unborn
    /\ ~EmailFree(new.email)
    /\ answer' \in {RegisterAnswer(a, new) : a \in Refused("drivers.email") \cup Garbled}
    /\ UNCHANGED accountVars

\* or it never reaches D1.
RegisterLost(p, d, email, role) ==
    /\ account[d] = Unborn
    /\ answer' \in {RegisterAnswer(a, New(p, d, email, role)) : a \in Garbled}
    /\ UNCHANGED accountVars

Login_AnyPassword(p, email) ==
    LET held == {d \in Registered : account[d].email = Canonical(email)} IN
    \E d \in {DriverRow(a) : a \in Ran(Lines(held)) \cup Garbled} :
        /\ d.error = "none"
        /\ session' = [session EXCEPT ![p] = [sub |-> d.account.id, role |-> d.account.role]]
        /\ answer' = Silent
        /\ UNCHANGED account

\* POST /api/auth/login's answer to `d`: an unknown email and a wrong password
\* are answered alike.
LoginAnswer(d, p, email) ==
    IF d.error = "internal" THEN Silent
    ELSE IF d.error = "none" /\ d.account.password = p THEN Says(200, "account", d.account)
    ELSE Says(401, "credentials", [password |-> p, email |-> Canonical(email)])

\* GetByEmail, the password, and the cookies of a new session.
Login(p, email) ==
    LET held == {d \in Registered : account[d].email = Canonical(email)} IN
    \E d \in {DriverRow(a) : a \in Ran(Lines(held)) \cup Garbled} :
        /\ answer' = LoginAnswer(d, p, email)
        /\ session' = IF answer'.status = 200
                      THEN [session EXCEPT ![p] = [sub |-> d.account.id, role |-> d.account.role]]
                      ELSE session
        /\ UNCHANGED account

\* GET /api/auth/me behind NewAuth, which lets the token's claims through.
Me(p) ==
    /\ session[p] # NoSession
    /\ \E d \in {DriverRow(a) : a \in Ran(Lines(Registered \cap {session[p].sub})) \cup Garbled} :
          answer' = CASE d.error = "none" -> Says(200, "account", d.account)
                      [] d.error = "not found" -> Says(404, "account", session[p].sub)
                      [] OTHER -> Silent
    /\ UNCHANGED accountVars

\* Logout clears the cookies; or they outlive the token.
Leave(p) ==
    /\ session[p] # NoSession
    /\ session' = [session EXCEPT ![p] = NoSession]
    /\ answer' = Silent
    /\ UNCHANGED account

AccountsNext ==
    \/ \E p \in Person, d \in Driver, email \in Email, role \in Role :
          \/ Register(p, d, email, role)
          \/ RegisterConflict(p, d, email, role)
          \/ RegisterLost(p, d, email, role)
    \/ \E p \in Person, email \in Email : Login(p, email)
    \/ \E p \in Person : Me(p) \/ Leave(p)

-----------------------------------------------------------------------------
\* No two accounts have the same address, in whatever case each was typed
\* (the schema's UNIQUE compares bytes).
EmailsUnique ==
    \A c, d \in Registered : c # d => account[c].email[1] # account[d].email[1]

\* A token's subject and role are those of a stored account that its holder has
\* the password of, for all that a row's columns reach scanDriver by position.
SessionsTrue ==
    \A p \in Person :
        session[p] # NoSession =>
            \E d \in Registered :
                /\ account[d].password = p
                /\ session[p] = [sub |-> d, role |-> account[d].role]

\* What /api/auth claims holds of the table: an account it shows is stored just
\* so, a conflict is with an account that exists, and credentials it refuses
\* are nobody's.
AccountAnswersTrue ==
    /\ answer.of = "account" /\ answer.status \in {200, 201} =>
            answer.about \in {account[d] : d \in Registered}
    /\ answer.of = "email" => ~EmailFree(answer.about)
    /\ answer.of = "credentials" =>
            \A d \in Registered :
                \/ account[d].password # answer.about.password
                \/ account[d].email[1] # answer.about.email[1]
    /\ answer.of = "account" /\ answer.status = 404 => answer.about \notin Registered
=============================================================================
