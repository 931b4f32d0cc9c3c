----------------------------- MODULE Credentials -----------------------------
(***************************************************************************)
(* The credentials of one address: authCredentialService, emailLinkService,*)
(* the reset codes of authActionToken, createSession, and the requests of  *)
(* authController, accountController, passkeyAuthController and            *)
(* federatedAuthController around them.  Transactions of one account meet  *)
(* at its fence and are single steps; a request checks what it was given   *)
(* before its transaction, and waits in between.  A password is a number,  *)
(* 0 the empty one; an era ends when the owner of the inbox takes over.    *)
(* A sign-in by password waits with the password it compared, one by a     *)
(* provider or a passkey with the account it was resolved to.              *)
(***************************************************************************)
EXTENDS Integers, FiniteSets

CONSTANTS
    Session, Request, Link, Provider,
    OwnMail,        \* the providers that vouch for the account's own address
    MaxAttempts,    \* wrong submissions of a code that void it
    MaxPasswords    \* bound: passwords ever chosen

CredentialsAssumption ==
    /\ OwnMail \subseteq Provider
    /\ MaxAttempts \in Nat \ {0} /\ MaxPasswords \in Nat \ {0}

VARIABLES
    account,     \* its emailVerified: "none", "pending", "legacy", "verified"
    password, passwords,   \* the current one, and how many there have been
    identity,    \* per provider, the era its identity was linked in, or 0
    passkey,     \* the era the passkey was enrolled in, or 0
    sessions,    \* by what each was opened, the password and era of then, and the era its login began in
    requests, links,
    code,        \* the reset slot: is it live, and its wrong submissions
    era

vars == <<account, password, passwords, identity, passkey, sessions, requests, links, code, era>>
methods == <<password, passwords, identity, passkey>>

NoRequest == [kind |-> "none", session |-> "none", seen |-> 0, era |-> 0]
NoCode == [live |-> FALSE, failed |-> 0]
Identified == [NoRequest EXCEPT !.kind = "identified"]
NoSession == [at |-> "unused", by |-> "none", proof |-> 0, asked |-> 0, opened |-> 0]
NoLink == [at |-> "none", for |-> "none"]
Identities == {p \in Provider : identity[p] > 0}
Live == {s \in Session : sessions[s].at = "live"}

\* A code takes fewer wrong submissions than would void it.
TypeOK ==
    /\ account \in {"none", "pending", "legacy", "verified"}
    /\ password \in 0..MaxPasswords /\ passwords \in password..MaxPasswords
    /\ era \in 1..MaxPasswords + 1
    /\ identity \in [Provider -> 0..era] /\ passkey \in 0..era
    /\ sessions \in [Session -> [at : {"unused", "live", "revoked"}, by : {"none", "login", "identified"},
                                 proof : 0..MaxPasswords, asked : 0..era, opened : 0..era]]
    /\ requests \in [Request -> [kind : {"none", "login", "identified", "change", "offered", "enrol"} \union Provider,
                                 session : Session \union {"none"}, seen : 0..MaxPasswords, era : 0..era]]
    /\ links \in [Link -> [at : {"none", "asked", "live", "spent"}, for : {"none", "registration", "verifyEmail"}]]
    /\ code.live => code.failed \in 0..MaxAttempts - 1

\* An account of before has sessions and any methods; one left half-way by the earlier sign-up has a password.
Init ==
    /\ account \in {"none", "pending", "legacy", "verified"}
    /\ password \in (IF account = "pending" THEN {1} ELSE IF account = "none" THEN {0} ELSE {0, 1})
    /\ passwords = password /\ era = 1
    /\ identity \in [Provider -> {0, 1}] /\ passkey \in {0, 1}
    /\ account \in {"none", "pending"} => Identities = {} /\ passkey = 0
    /\ account \in {"legacy", "verified"} => password > 0 \/ Identities # {} \/ passkey > 0
    /\ \E open \in SUBSET Session :
         /\ account \in {"none", "pending"} => open = {}
         /\ Cardinality(open) <= 1
         /\ sessions = [s \in Session |-> IF s \in open
              THEN [at |-> "live", by |-> "login", proof |-> password, asked |-> 1, opened |-> 1] ELSE NoSession]
    /\ requests = [r \in Request |-> NoRequest]
    /\ links = [l \in Link |-> NoLink]
    /\ code = NoCode

-----------------------------------------------------------------------------
\* emailVerificationState
VerificationState ==
    IF account = "verified" \/ (account = "legacy" /\ Identities \intersect OwnMail # {}) THEN "verified"
    ELSE IF account = "pending" THEN "pending_record" ELSE "legacy_unverified"

Exists == account # "none"
NewPassword == passwords + 1
Revoked(kept) == [s \in Session |-> IF s \in Live \ kept THEN [NoSession EXCEPT !.at = "revoked"] ELSE sessions[s]]
WithoutOffers == [r \in Request |-> IF requests[r].kind = "offered" THEN NoRequest ELSE requests[r]]
Begin(r, kind, s) == requests' = [requests EXCEPT ![r] = [kind |-> kind, session |-> s, seen |-> password, era |-> era]]
Finish(r) == requests' = [requests EXCEPT ![r] = NoRequest]

\* authenticateUser, up to the session it asks for.
Login(r) ==
    /\ requests[r].kind = "none" /\ Exists /\ password > 0 /\ VerificationState = "verified"
    /\ Begin(r, "login", "none")
    /\ UNCHANGED <<account, methods, sessions, links, code, era>>

\* The identity or passkey presented is found and leads to its account.
Identify(r) ==
    /\ requests[r].kind = "none" /\ (Identities # {} \/ passkey > 0)
    /\ requests' = [requests EXCEPT ![r] = Identified]
    /\ UNCHANGED <<account, methods, sessions, links, code, era>>

\* Mutant: the password that was verified is not compared again.
AdmitsAnyPassword(r) == VerificationState = "verified"

\* The transaction of createSession: only a sign-in by password has something to compare.
Admits(r) == VerificationState = "verified" /\ (requests[r].kind = "login" => requests[r].seen = password)
SignsIn(r) == requests[r].kind \in {"login", "identified"}

CreateSession(r, s) ==
    /\ SignsIn(r) /\ Admits(r) /\ sessions[s].at = "unused"
    /\ LET req == requests[r]
       IN sessions' = [sessions EXCEPT ![s] =
              [at |-> "live", by |-> req.kind, proof |-> IF req.kind = "login" THEN req.seen ELSE password,
               asked |-> req.era, opened |-> era]]
    /\ Finish(r)
    /\ UNCHANGED <<account, methods, links, code, era>>

RefuseSession(r) ==
    /\ SignsIn(r) /\ ~Admits(r) /\ Finish(r)
    /\ UNCHANGED <<account, methods, sessions, links, code, era>>

-----------------------------------------------------------------------------
\* changePassword reads the user and compares; linking and enrolment were authenticated.
Ask(r, kind, s) ==
    /\ requests[r].kind = "none" /\ s \in Live
    /\ kind \in {"change"} \union {p \in Provider : identity[p] = 0}
    /\ Begin(r, kind, s)
    /\ UNCHANGED <<account, methods, sessions, links, code, era>>

\* registrationOptions stores a challenge for the account.
OfferPasskey(r, s) ==
    /\ requests[r].kind = "none" /\ s \in Live /\ VerificationState = "verified"
    /\ Begin(r, "offered", s)
    /\ UNCHANGED <<account, methods, sessions, links, code, era>>

\* verifyRegistration takes it, and attests.
TakeChallenge(r) ==
    /\ requests[r].kind = "offered"
    /\ requests' = [requests EXCEPT ![r].kind = "enrol"]
    /\ UNCHANGED <<account, methods, sessions, links, code, era>>

\* Mutant: the session is not looked at again.
ActiveAtRequest(r) == TRUE

\* requireActiveAuthSession
StillActive(r) == requests[r].session \in Live

\* Who has linked a provider is then signed in by it.
LinkProvider(r, p) ==
    /\ requests[r].kind = p
    /\ IF StillActive(r) /\ VerificationState = "verified" /\ identity[p] = 0
       THEN identity' = [identity EXCEPT ![p] = requests[r].era] /\ requests' = [requests EXCEPT ![r] = Identified]
       ELSE UNCHANGED identity /\ Finish(r)
    /\ UNCHANGED <<account, password, passwords, passkey, sessions, links, code, era>>

EnrolPasskey(r) ==
    /\ requests[r].kind = "enrol"
    /\ IF StillActive(r) /\ VerificationState = "verified"
       THEN passkey' = requests[r].era ELSE UNCHANGED passkey
    /\ Finish(r)
    /\ UNCHANGED <<account, password, passwords, identity, sessions, links, code, era>>

\* changeAccountPassword
ChangePassword(r) ==
    /\ requests[r].kind = "change" /\ NewPassword <= MaxPasswords
    /\ IF StillActive(r) /\ requests[r].seen = password
       THEN /\ password' = NewPassword /\ passwords' = NewPassword
            /\ sessions' = [Revoked({requests[r].session}) EXCEPT ![requests[r].session].proof = NewPassword]
       ELSE UNCHANGED <<password, passwords, sessions>>
    /\ Finish(r)
    /\ UNCHANGED <<account, identity, passkey, links, code, era>>

\* Mutant: a provider that is the only method may go.
SparesNothing(p) == TRUE

\* The count of unlinkAccountProvider.
SparesAMethod(p) ==
    (IF password > 0 THEN 1 ELSE 0) + Cardinality(Identities) + (IF passkey > 0 THEN 1 ELSE 0) > 1

\* unlinkAccountProvider: its first check is that the session is still active.
UnlinkProvider(s, p) ==
    /\ s \in Live /\ p \in Identities /\ SparesAMethod(p)
    /\ identity' = [identity EXCEPT ![p] = 0]
    /\ UNCHANGED <<account, password, passwords, passkey, sessions, requests, links, code, era>>

Logout(s) ==
    /\ s \in Live /\ sessions' = Revoked(Session \ {s})
    /\ UNCHANGED <<account, methods, requests, links, code, era>>

-----------------------------------------------------------------------------
\* A request for a link looks the account up, and mails what its state calls for.
AskLink(l) ==
    /\ links[l].at = "none"
    /\ \E purpose \in {"registration", "verifyEmail"} :
         /\ IF purpose = "registration" THEN account \in {"none", "pending"}
                                       ELSE Exists /\ VerificationState = "legacy_unverified"
         /\ links' = [links EXCEPT ![l] = [at |-> "asked", for |-> purpose]]
    /\ UNCHANGED <<account, methods, sessions, requests, code, era>>

StoreLink(l) ==
    /\ links[l].at = "asked" /\ links' = [links EXCEPT ![l].at = "live"]
    /\ UNCHANGED <<account, methods, sessions, requests, code, era>>

SpentLinks(purposes) ==
    [l \in Link |-> IF links[l].at = "live" /\ links[l].for \in purposes THEN [NoLink EXCEPT !.at = "spent"] ELSE links[l]]

\* Everything that was there before goes, and the new credentials are all there is.
Replace(new, p, rest) ==
    /\ password' = new /\ passwords' = IF new = 0 THEN passwords ELSE new
    /\ era' = era + 1
    /\ identity' = [q \in Provider |-> IF q = p THEN era + 1 ELSE 0]
    /\ passkey' = 0
    /\ sessions' = Revoked({}) /\ requests' = rest /\ code' = NoCode
    /\ account' = "verified"

\* completeRegistrationInTransaction; a registered account keeps everything.
CompleteRegistration(l) ==
    /\ links[l] = [at |-> "live", for |-> "registration"] /\ NewPassword <= MaxPasswords
    /\ \/ /\ account = "none" /\ account' = "verified"
          /\ password' = NewPassword /\ passwords' = NewPassword
          /\ links' = SpentLinks({"registration"})
          /\ UNCHANGED <<identity, passkey, sessions, requests, code, era>>
       \/ /\ account = "pending" /\ Replace(NewPassword, "none", WithoutOffers)
          /\ links' = SpentLinks({"registration", "verifyEmail"})
       \/ /\ account \in {"legacy", "verified"} /\ links' = SpentLinks({"registration"})
          /\ UNCHANGED <<account, methods, sessions, requests, code, era>>

\* replacePendingRecordWithProvider: the provider vouches for the address, and signs in.
ReplaceWithProvider(r, p) ==
    /\ requests[r].kind = "none" /\ account = "pending" /\ p \in OwnMail
    /\ Replace(0, p, [WithoutOffers EXCEPT ![r] = Identified]) /\ links' = SpentLinks({"registration", "verifyEmail"})

\* confirmEmailVerificationLink: no credential changes.
ConfirmEmail(l) ==
    /\ links[l] = [at |-> "live", for |-> "verifyEmail"] /\ account \in {"legacy", "verified"}
    /\ account' = "verified" /\ links' = SpentLinks({"verifyEmail"})
    /\ UNCHANGED <<methods, sessions, requests, code, era>>

-----------------------------------------------------------------------------
\* forgotPassword: a new code takes the slot of the one before it.
IssueCode ==
    /\ account \in {"legacy", "verified"}
    /\ code' = [live |-> TRUE, failed |-> 0]
    /\ UNCHANGED <<account, methods, sessions, requests, links, era>>

ExpireCode ==
    /\ code.live /\ code' = [code EXCEPT !.live = FALSE]
    /\ UNCHANGED <<account, methods, sessions, requests, links, era>>

\* Mutant: the attempt after the last voids the code.
VoidsLate(failed) == failed > MaxAttempts

\* consumeInTransaction
Voids(failed) == failed >= MaxAttempts

WrongCode ==
    /\ account \in {"legacy", "verified"} /\ code.live
    /\ LET failed == code.failed + 1
       IN code' = IF Voids(failed) THEN NoCode ELSE [code EXCEPT !.failed = failed]
    /\ UNCHANGED <<account, methods, sessions, requests, links, era>>

\* applyPasswordReset with the right code; a new owner of the record keeps nothing of the old.
ResetPassword ==
    /\ account \in {"legacy", "verified"} /\ code.live /\ NewPassword <= MaxPasswords
    /\ password' = NewPassword /\ passwords' = NewPassword
    /\ sessions' = Revoked({})
    /\ IF VerificationState = "legacy_unverified"
       THEN /\ identity' = [p \in Provider |-> 0] /\ passkey' = 0
            /\ requests' = WithoutOffers /\ era' = era + 1
       ELSE UNCHANGED <<identity, passkey, requests, era>>
    /\ account' = "verified" /\ code' = NoCode /\ links' = SpentLinks({"verifyEmail"})

-----------------------------------------------------------------------------
Next ==
    \/ \E r \in Request : \/ Login(r) \/ Identify(r) \/ RefuseSession(r) \/ TakeChallenge(r) \/ EnrolPasskey(r) \/ ChangePassword(r)
                          \/ \E s \in Session : \/ CreateSession(r, s) \/ OfferPasskey(r, s)
                                                \/ \E kind \in {"change"} \union Provider : Ask(r, kind, s)
                          \/ \E p \in Provider : LinkProvider(r, p) \/ ReplaceWithProvider(r, p)
    \/ \E s \in Session : Logout(s) \/ \E p \in Provider : UnlinkProvider(s, p)
    \/ \E l \in Link : AskLink(l) \/ StoreLink(l) \/ CompleteRegistration(l) \/ ConfirmEmail(l)
    \/ IssueCode \/ ExpireCode \/ WrongCode \/ ResetPassword

Spec == Init /\ [][Next]_vars

-----------------------------------------------------------------------------
\* A change of the password ends every session but the one that made it, and a
\* sign-in by password that was verified before the change opens none after it,
\* however long either waited for the account.
SessionsAreCurrent == \A s \in Live : sessions[s].proof = password

\* Once the owner of the inbox takes a record over, by a reset of an account
\* never verified or by replacing a record left half-way, no session opened
\* before, no identity and no passkey of before is left, and no sign-in by
\* password, link or enrolment asked for before comes into force, whenever it is
\* finished.  Nothing is said of a sign-in by a provider or a passkey that was
\* resolved before: createSession has nothing to compare for it, and it may
\* still open a session.
NothingPredatesProof ==
    /\ \A s \in Live : sessions[s].opened = era /\ (sessions[s].by = "login" => sessions[s].asked = era)
    /\ \A p \in Identities : identity[p] = era
    /\ passkey \in {0, era}

\* An account always has a method by which it signs in: neither unlinking, nor a
\* reset, nor a replacement that drops the others, takes the last one.
HasAMethod == Exists => Identities # {} \/ passkey > 0 \/ password > 0
=============================================================================
