------------------------------ MODULE MCStorage ------------------------------
(***************************************************************************)
(* Instances of the four protocols that publish objects of the store:      *)
(* conversions (twice: PUTs end with their leases, or may come late),      *)
(* avatars, audio and cover art.  They share nothing: a behaviour is one   *)
(* of one `part`, in which conversions stay where they begin and the       *)
(* variables of the others unused unless they are what it is about.        *)
(***************************************************************************)
EXTENDS Conversion, FiniteSets, TLC

CONSTANT Parts

VARIABLES part,
          objects, sent, requests,                \* the others' `stored`, `inflight` and `calls`
          user, muts, tokens, applied, assets,    \* AvatarStorage
          row, referenced, drawn,                 \* AudioStorage, its track the `row`
          owner, op, late                         \* CoverArt, and `assets`, `referenced`, `drawn`

otherVars == <<objects, sent, requests, user, muts, tokens, applied, assets, row, referenced, drawn, owner, op, late>>
suiteVars == <<part, vars, otherVars>>

Symmetry == Permutations(Operation) \union Permutations(Worker)

Own == "own"
Alien == "alien"

\* One call at a time, whose PUTs end before its lease does.
Punctual == INSTANCE Conversion WITH MaxClaims <- 3, MaxEdits <- 0, LatePuts <- FALSE
OneCall == Cardinality({w \in Worker : calls'[w] # NoCall}) <= 1
\* Two calls of one operation.
Late == INSTANCE Conversion WITH MaxClaims <- 2, MaxEdits <- 1, LatePuts <- TRUE
OneOperation == Cardinality({o \in Operation : ops'[o] # NoOp}) <= 1

Avatar == INSTANCE AvatarStorage WITH
    Key <- Operation, MaxTokens <- 4, stored <- objects, inflight <- sent, calls <- requests
Audio == INSTANCE AudioStorage WITH
    Key <- Operation, track <- row, stored <- objects, inflight <- sent, calls <- requests
Art == INSTANCE CoverArt WITH
    Key <- Operation, MaxTokens <- 1, stored <- objects, inflight <- sent, calls <- requests

ASSUME /\ ConversionAssumption /\ Punctual!ConversionAssumption /\ Late!ConversionAssumption
       /\ Avatar!AvatarAssumption /\ Audio!AudioAssumption /\ Art!CoverArtAssumption

Conversions == {"conversion", "late conversion"}

\* What holds of a variable while no part that uses it runs.
Outside(parts, rest) == IF part \in parts THEN TRUE ELSE rest

SuiteInit ==
    /\ part \in Parts
    /\ Init
    /\ CASE part \in Conversions -> objects = None /\ sent = None /\ requests = None
         [] part = "avatar" -> Avatar!Init
         [] part = "audio" -> Audio!Init
         [] part = "art" -> Art!Init
    /\ Outside({"avatar"}, user = None /\ muts = None /\ tokens = None /\ applied = None)
    /\ Outside({"avatar", "art"}, assets = None)
    /\ Outside({"audio"}, row = None)
    /\ Outside({"audio", "art"}, referenced = None /\ drawn = None)
    /\ Outside({"art"}, owner = None /\ op = None /\ late = None)

SuiteNext ==
    /\ UNCHANGED part
    /\ CASE part = "conversion" -> Punctual!Next /\ OneCall
         [] part = "late conversion" -> Late!Next /\ OneOperation
         [] part = "avatar" -> Avatar!Next
         [] part = "audio" -> Audio!Next
         [] part = "art" -> Art!Next
    /\ Outside(Conversions, UNCHANGED vars)
    /\ Outside({"avatar", "audio", "art"}, UNCHANGED <<objects, sent, requests>>)
    /\ Outside({"avatar"}, UNCHANGED <<user, muts, tokens, applied>>)
    /\ Outside({"avatar", "art"}, UNCHANGED assets)
    /\ Outside({"audio"}, UNCHANGED row)
    /\ Outside({"audio", "art"}, UNCHANGED <<referenced, drawn>>)
    /\ Outside({"art"}, UNCHANGED <<owner, op, late>>)

SuiteSpec == SuiteInit /\ [][SuiteNext]_suiteVars

-----------------------------------------------------------------------------
\* What the conversion service promises in every part is stated in Conversion:
\* ConversionAgrees, BytesAreSafe and EndsAreFinal.  Here are the others' promises.

\* No visitor or player is ever pointed at bytes that are gone: each protocol
\* implements SafeStore, through crashes, lost replies and late PUTs.
Shown == CASE part \in Conversions -> {}
           [] part = "avatar" -> Avatar!Served
           [] part = "audio" -> Audio!Played
           [] part = "art" -> Art!Shown
Stored == IF part \in Conversions THEN {} ELSE objects
Store == INSTANCE SafeStore WITH Key <- Operation \union {Own, Alien}, stored <- Stored, shown <- Shown
StoresAreSafe == Store!Spec

\* Every object that is, or may yet be, in a store is remembered by a row that
\* somebody will clean up by: the bytes a conversion replaced (while a PUT ends
\* before its lease does), an avatar, an upload of a track, a cover.
BytesAreAccountedFor ==
    CASE part = "conversion" -> ReplacedBytesAreAccountedFor
      [] part = "late conversion" -> TRUE
      [] part = "avatar" -> Avatar!TypeOK /\ Avatar!BytesHaveARecord
      [] part = "audio" -> Audio!TypeOK /\ Audio!ObjectsAreNamed
      [] part = "art" -> Art!TypeOK /\ Art!NothingOrphaned

\* Nothing is half gone: an avatar without bytes is being deleted and its account
\* was told what was done, nothing names a deleted track, a deleted artist or album
\* took its objects and references with it, and art that is named is shown.
DeletionsAreThorough ==
    CASE part = "avatar" -> Avatar!DeadAvatarIsBeingDeleted /\ Avatar!ReceiptsAreTrue
      [] part = "audio" -> Audio!NothingDangles
      [] part = "art" -> Art!DeletionIsThorough /\ Art!ArtIsShown
      [] OTHER -> TRUE

\* What was dispatched is remembered until it is answered, and only a deletion
\* ends what a reader could play.
OutcomesAreFinal ==
    [][CASE part = "avatar" -> Avatar!DispatchedStay
         [] part = "audio" -> Audio!StillPlayable
         [] OTHER -> TRUE]_suiteVars
=============================================================================
