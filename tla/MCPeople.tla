------------------------------ MODULE MCPeople -------------------------------
(***************************************************************************)
(* Instances of the components that say who is signed in and what friends  *)
(* see of each other: refresh tokens, connection tickets, credentials,     *)
(* music shares and listening publications.  They share nothing here: a    *)
(* behaviour is one of one `part`, and the variables of the others stay    *)
(* unused.                                                                 *)
(***************************************************************************)
EXTENDS Integers, Sequences, FiniteSets, TLC

CONSTANTS x1, x2, x3,    \* accounts, tickets or sessions
          y1, y2,        \* requests or upgrades
          Parts

VARIABLES part,
          now, current, previous, rotatedAt, revoked, issued, request, waiting, held, loggedOut,
          retired, spent,                                            \* RefreshTokens
          live, ticket, upgrade, owner,                              \* RoomTickets
          account, password, passwords, identity, passkey, sessions, requests, links, code, era, \* Credentials
          friends, content, shares, open,                            \* MusicShares, and `account`
          publication, receipts, wire, device, read, runs, stopped, lost \* Listening, and `owner`

tokenVars == <<now, current, previous, rotatedAt, revoked, issued, request, waiting, held, loggedOut, retired, spent>>
ticketVars == <<live, ticket, upgrade>>
credentialVars == <<password, passwords, identity, passkey, sessions, requests, links, code, era>>
shareVars == <<friends, content, shares, open>>
listeningVars == <<publication, receipts, wire, device, read, runs, stopped, lost>>
vars == <<part, tokenVars, ticketVars, owner, credentialVars, account, shareVars, listeningVars>>

Symmetry == Permutations({x1, x2, x3}) \union Permutations({y1, y2})

Tokens == INSTANCE RefreshTokens WITH
    MaxTokens <- 6, MaxRequests <- 4, MaxTime <- 4, Grace <- 2, Stragglers <- FALSE
Tickets == INSTANCE RoomTickets WITH
    Session <- {"s", "t"}, Ticket <- {x1, x2, x3}, Upgrade <- {y1, y2}, Limit <- 2
Credentials == INSTANCE Credentials WITH
    Session <- {x1, x2}, Request <- {y1, y2}, Link <- {"link"},
    Provider <- {"apple", "google"}, OwnMail <- {"apple"}, MaxAttempts <- 1, MaxPasswords <- 2
Shares == INSTANCE MusicShares WITH
    Account <- {x1, x2, x3}, Content <- {"song"}, Request <- {y1, y2}, Incoming <- 1, Outgoing <- 1, Batch <- 1
Listening == INSTANCE Listening WITH
    Device <- {"browser"}, MaxCommands <- 1, MaxRuns <- 2, MaxIntents <- 1, MaxReports <- 4, MaxPublisher <- 1

ASSUME /\ Tokens!TokensAssumption /\ Tickets!TicketsAssumption
       /\ Credentials!CredentialsAssumption /\ Shares!SharesAssumption /\ Listening!ListeningAssumption

\* What holds of a variable while no part that uses it runs.
Outside(parts, rest) == IF part \in parts THEN TRUE ELSE rest

None == "none"

Init ==
    /\ part \in Parts
    /\ CASE part = "tokens" -> Tokens!Init
         [] part = "tickets" -> Tickets!Init
         [] part = "credentials" -> Credentials!Init
         [] part = "shares" -> Shares!Init
         [] part = "listening" -> Listening!Init
    /\ Outside({"tokens"},
          /\ now = None /\ current = None /\ previous = None /\ rotatedAt = None /\ revoked = None /\ issued = None
          /\ request = None /\ waiting = None /\ held = None /\ loggedOut = None /\ retired = None /\ spent = None)
    /\ Outside({"tickets"}, live = None /\ ticket = None /\ upgrade = None)
    /\ Outside({"tickets", "listening"}, owner = None)
    /\ Outside({"credentials"},
          /\ password = None /\ passwords = None /\ identity = None /\ passkey = None /\ sessions = None
          /\ requests = None /\ links = None /\ code = None /\ era = None)
    /\ Outside({"credentials", "shares"}, account = None)
    /\ Outside({"shares"}, friends = None /\ content = None /\ shares = None /\ open = None)
    /\ Outside({"listening"},
          /\ publication = None /\ receipts = None /\ wire = None /\ device = None
          /\ read = None /\ runs = None /\ stopped = None /\ lost = None)

Next ==
    /\ UNCHANGED part
    /\ CASE part = "tokens" -> Tokens!Next
         [] part = "tickets" -> Tickets!Next
         [] part = "credentials" -> Credentials!Next
         [] part = "shares" -> Shares!Next
         [] part = "listening" -> Listening!Next
    /\ Outside({"tokens"}, UNCHANGED tokenVars)
    /\ Outside({"tickets"}, UNCHANGED ticketVars)
    /\ Outside({"tickets", "listening"}, UNCHANGED owner)
    /\ Outside({"credentials"}, UNCHANGED credentialVars)
    /\ Outside({"credentials", "shares"}, UNCHANGED account)
    /\ Outside({"shares"}, UNCHANGED shareVars)
    /\ Outside({"listening"}, UNCHANGED listeningVars)

Spec == Init /\ [][Next]_vars

-----------------------------------------------------------------------------
\* Who is signed in, and for how long.  A client that waits for a refresh is
\* signed out only for cause, a logout wins every race with a refresh, and a
\* rotated token has one window; a ticket, however often it is redeemed, opens
\* one socket; a login opens no session after the password it compared is gone,
\* no session, method, login by password, link or enrolment outlives a takeover by
\* the owner of the inbox, and an account keeps a method to sign in.
SessionsAreLawful ==
    CASE part = "tokens" -> Tokens!TypeOK /\ Tokens!WindowIsFinal /\ Tokens!RefusedForCause /\ Tokens!LogoutWins
      [] part = "tickets" -> Tickets!TypeOK /\ Tickets!OneSocketPerTicket
      [] part = "credentials" -> Credentials!TypeOK /\ Credentials!SessionsAreCurrent /\ Credentials!NothingPredatesProof
                                  /\ Credentials!HasAMethod
      [] OTHER -> TRUE

\* What friends see is so: shares are of friends who are there and of music that
\* is, can always be taken back, and a listening status is of a run that plays.
FriendsSeeTheTruth ==
    CASE part = "shares" -> Shares!TypeOK /\ Shares!SharesAreOfFriends /\ Shares!DetachedIsUnshared /\ Shares!LeavingIsPossible
      [] part = "listening" -> Listening!TypeOK /\ Listening!StoppedStaysStopped /\ Listening!StatusFollowsPlayback
      [] OTHER -> TRUE
=============================================================================
