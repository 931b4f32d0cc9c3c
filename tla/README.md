# Archtree: a verification development

Archtree is a media catalogue with listening rooms, friends, an administration
that converts and publishes media, and a server of which any number of
processes may run at once. This directory holds TLA+ modules of its protocols,
TLC configurations that check them on small instances, and TLAPS proofs of the
parts that matter most. Paths below are relative to the repository
(`src/src/...` is the server, `src/docs/...` its documentation).

Contents: 1 inventory, 2 plan, 3 modules, 4 runs and bounds, 5 fairness,
6 proofs, 7 disagreements between code and documentation, 8 what is not modelled.

## 1. Inventory

All durable state is in MongoDB. There is no in-memory truth: a command, a
socket report and the timer each run one snapshot-isolation transaction that
reads documents, decides, and writes them back. What is *not* atomic is the
distance between a client and the server (it acts on a snapshot it received
some time ago), between the timer's look at the rooms and its transactions, and
between a process's belief that it is the scheduler and the database's.

| Component | State | Operations | Talks to | What makes it correct |
|---|---|---|---|---|
| Room authority (`realtime/roomAuthority.ts`) | one document: owner, epoch, expiry, fence; one local epoch per process | acquire, assert, release | timer calls acquire; every scheduling transaction calls assert | one process per epoch; committed room writes are those of the current holder; a lapse is always visible as a new epoch; the rooms get a scheduler again after a crash |
| Room service (`application/rooms`) | `socialRooms`, `socialRoomParticipation`, `socialInvitations` | 25 commands, heartbeat, readiness, disconnect, sweep; `applyRoomSafety`, `invalidateRoomsForMedia` called from other services' transactions | authority; social graph, sessions, media; outbox to the gateway | at most one room per account and rows that agree; no block inside a room; host changes by consent; a late command never hits another occurrence; playback starts and advances only under supervision; abandoned rooms close |
| Receipts (`mutate`) | `socialMutations`, `socialBudgets` | replay, digest conflict, expiry | room and social commands | a retry answers and never acts twice |
| Realtime gateway (`realtime/roomGateway.ts`) | per process: sockets, seats, chains, refresh flags | upgrade, messages, fan-out, tick, stop | authority, room service, tickets | per-socket order; no stale snapshot after a newer one; seats within capacity |
| Tickets (`realtime/roomTickets.ts`) | `socialRealtimeTickets` | issue, redeem | sessions | single use; dead with the session |
| Social graph (`application/social`) | profiles, handles, relationships, budgets | profile, request, accept, decline, cancel, remove, block, unblock, deactivate, report | rooms through `applyRoomSafety` | symmetric edges, monotone revisions, blocks win |
| Listening, music shares | publications, shares | publish, suppress, share, withdraw | rooms suppress publications | one publication per account; none while its controller is paused or gone |
| Sessions (`services/auth`) | `authSessions` | sign in, rotate, revoke | rooms, tickets | rotation replay window; revocation reaches rooms and tickets in one transaction |
| Account deletion, moderation | accounts, reference fence | delete, suspend | everything that stores an account id | nothing is written for a deleted account |
| Catalogue deletion lease | operation documents | acquire, renew, steps, release | catalogue writers | a reference is never left to a deleted item; work resumes after a crash |
| Storage of audio, images, avatars | object store and document | put, publish, remove, reconcile | media | published bytes exist; every stored byte is remembered by a row |
| Video projects (`services/media`) | project document, object store | upload, process, frames, approve, publish, cancel, clean up | track, store, administrators | a key is written once; what is published is what was approved; a cancelled project leaves nothing |
| Conversion, motion previews, room audio analysis | leased jobs | claim, renew, finish, cancel | storage | only the lease holder's result is published |
| Metadata lookup gate | one document per source | acquire, sent, release | providers | spacing and concurrency hold across processes |
| Media delivery admission | counters and a queue per process | admit, wait, release | delivery routes | ceilings bound the work; a playback waits only for a place it can get |
| Server lifecycle | process: tracked work, draining | track, drain, force | gateway, jobs | draining ends, gracefully or by its deadline |
| Web room session (`src/web`) | client projection | apply snapshot, send report | gateway | never goes back to an older epoch or revision |

The behaviours that are hard to test, each at its line, are the `hazards` of
`PROJECT.json`; the properties of section 4 were written for them.

## 2. Plan

The core came first: the authority over rooms, then the room service, then the
gateway that shows rooms to clients, then the components that rooms read
(friends, sessions, media), then the leased jobs and stores, and the process
itself. Each component has a module of its own that keeps the code's names and
has one action per operation; `MC*` modules instantiate them. Two abstract
specifications say what the protocols are for: `FencedWriter` (a lease that
fences its holder's writes) and `SafeStore` (nobody is pointed at bytes that
are not there). No module declares a RECURSIVE operator, so every one of them
can be proved about.

Proofs are built in the same order and from the same kind of argument: the
inductive invariant is checked by TLC on the instances first, one lemma per
action shows that it is kept, and the theorems follow. Proved: the authority,
the room service, the conversion service, the video projects. What could be
proved next, most important first: the ties of the social graph
(`TiesAreLawful` over stale transactions), the records of the other stores
(`AudioStorage`, `AvatarStorage`, `CoverArt`), and the small lease protocols
(`LookupGate`, `RoomAnalysis`).

## 3. Modules

Rooms:

**`FencedWriter`** - what a lease has to promise its clients: committed writes
carry epochs that never decrease, and an epoch belongs to one process for ever.

**`RoomAuthority`** - `realtime/roomAuthority.ts`, the tick that drives it and
the room transaction that writes the fence. The lease document is `lease`, its
owner, epoch and fence as in the code and the remaining time instead of the
expiry. acquire() is sent, applied by the database at some later time, and
answered or lost; release() likewise; a process can crash at any point and
starts under a new owner id. A transaction that has written the document locks
it, and one that would write a document changed since its snapshot aborts: the
two facts about MongoDB the code relies on. It implements `FencedWriter`
(`CommitsAreFenced`).

**`RoomAggregate`** - the room document and the functions transactions are
built from: `pauseRoom`, `prepare`, `finishPreparation`, `removeRoomMember`,
`persistRoom`, `roomHostPlaybackSuspended`, ... A stored instant becomes the
time since or until it, so that one tick ages a room.

**`Rooms`** - the transactions. One action is one committed transaction:
commands (`Create` ... `Play`), `Heartbeat`, `ReadyCurrent`, `ReadyPrepared`,
`Disconnected`, `Sweep`, the changes of the graph, sessions and media together
with their effect on rooms, a new authority epoch, the rollout flag, time. All
transactions on a room write its document, its members' accounts or the
authority's fence, so MongoDB lets only one of two overlapping ones commit: a
sequence of atomic steps is what the database produces. A rejected command, a
no-op or an aborted transaction is a stuttering step. Staleness is in `view`: a
snapshot of some earlier moment that any device, report or sweep may still use;
together with the present one it gives the arguments of every request. One held
snapshot at a time is enough because no action uses two.

| State | Code |
|---|---|
| `rooms[r]` | `RoomDocument`; `None` before creation, `Closed` afterwards |
| `slots[a]` | `socialRoomParticipation` |
| `invitations[r, a]` | pending `socialInvitations` (one row per room and recipient) |
| `friends`, `blocks`, `active` | `socialRelationships`, `socialProfiles.active` |
| `sessions` | `authSessions`; `AccountOf`, `SessionOf` give each device its account and session |
| `media` | revision and readiness of each track |
| `epoch`, `enabled` | the authority's epoch, the rollout flag |

Abstractions: an identifier is the pair or number that makes it unique
(a membership is an account's nth admission); an offer or an invitation is
identified by its content, since a replaced one is indistinguishable from the
first for what follows; the revision is kept modulo 2 because only "changed or
not" is asked of it; ages stop at `HostClose`, beyond which no comparison
distinguishes them; the milliseconds of `Math.floor` are ticks. `MaxVersion`
plays `Number.MAX_SAFE_INTEGER`, at which the code refuses to increment: the
model refuses in the same places, so that bound is part of the code and not
only of the model. Sweeps write only if something changed, as `sweepIsUnchanged`
and `planSweep` do. Restarting a room service has no effect of its own (it has
no state) beyond a new epoch.

**`RoomProperties`** - every property of the rooms, with the reason in words.
**`RoomStart`** - where instances begin: `EmptyInit` has no room; `OpenInit` has
one that was created and joined, a state reached by `Create`, `Invite`, `Accept`
and a heartbeat of each device, so that playback runs need not spend their
states on it.

**`RoomGateway`** - `realtime/roomGateway.ts`: wakeups are coalesced into passes
over the connections, a client's sockets share one chain of work, and a
snapshot is read some time before it is delivered. **`RealtimeSeats`** - who is
given a socket: the judgment reads the process's own connections, the membership
it depends on is awaited, and the seats are read again. **`RoomTickets`** - from a
session to a socket: tickets are issued and redeemed under the session's fence.

People:

**`SocialGraph`** - profiles, requests, friendships, blocks, suspension and the
deletion of an account, as snapshot transactions that may have read before
another one committed, with signed scopes, receipts and retries.
**`RefreshTokens`** - rotation of a session's tokens over lost and late requests.
**`Credentials`** - passwords, identities, passkeys, links and codes of one
address. A sign-in is a request that has been verified or resolved outside the
transaction that opens its session: by password (`Login`) it carries the password
it compared, by a provider or a passkey (`Identify`, and what `LinkProvider` and
`ReplaceWithProvider` go on to) only its account. `createSession` compares a
password only when it is given one, so a takeover that commits in between (a reset
of an account never verified, `ResetPassword`) overtakes the first and not the
second: after it, a sign-in by a provider or passkey that was resolved before may
open a session although its identity is gone. No document promises otherwise,
and `NothingPredatesProof` claims nothing of such a sign-in: only that sessions
opened before, identities, passkeys, and the logins by password, links and
enrolments asked for before are of no effect. **`MusicShares`** - shares of a track between friends, and everything
that takes shares away. **`Listening`** - a listener's publication, the gesture
that claims it, and the reports that overtake each other.

Media and the store:

**`SafeStore`** - nobody shows bytes that are not there, nobody takes away bytes
that are shown. **`Conversion`** - conversions of one track under leases, with the
calls to the store between their transactions. **`AudioStorage`** - the one media
object of a track, without a lease. **`AvatarStorage`** - leased mutations of an
avatar and their resumption. **`CoverArt`** - cover art of an artist or album and
the deletion of its owner under a lease. **`VideoProject`**, **`VideoWorker`** - a
video project's document and its administrators' commands; the workers that
process, publish and clean it up. **`RoomAnalysis`**, **`AnalysisBackfill`** - the
leased analysis of a track's audio, and the paged walk over the catalogue.

Process:

**`RequestDrain`** - how a server process stops. **`MediaAdmission`** - the pool of
media reads. **`LookupGate`** - the deployment-wide gate of one metadata source.

Instances. `MCRooms`, `MCGraph`, `MCPeople`, `MCServer`, `MCStorage`, `MCVideo`
and `MCProgress` each hold several instances of one or more components. A
behaviour belongs to one `part`, chosen by `Init`; the parts share nothing, and
variables a part does not use stay as they are. Three of them extend a component,
`MCRooms` the rooms, `MCStorage` the conversions and `MCVideo` the video worker:
their parts have the component's variables, and its properties are checked by
the names it gives them. The other properties of these modules are conjunctions
of the components' own, one per part. The parts of `MCRooms` differ in who is
`Here`, whose `SecondTabs` there are, which requests and events meet (`Traffic`)
and, for two of them, the queue or the host's grace; in the part about admission
nobody blocks the account that is not there (`Uninvolved`). The proofs are about
the component modules, for every value of the constants; the parts are instances
of exactly those modules.

## 4. Runs

| Run | Question and instance | Distinct states |
|---|---|---|
| `authority_safety` | two processes and two transactions, leases of 2 ticks, counters to 3: types, no shared epoch, lapses visible, a release ends its own grant only, commits implement `FencedWriter` | 1 579 108 |
| `rooms_membership` | participation, blocks, invitations, offers, versions, hand-over, late skips; four parts: two accounts and two rooms with two admissions each (22 833), three accounts in one room who fall out (23 187), a host and a guest with a second tab and a grace of 1 (54 732), late edits of a queue of up to three entries (8 736) | 109 488 |
| `rooms_playback` | one story, supervised starts, revised changes, due advances; two devices with preparation, readiness, absence and the sweep, one that meets a new epoch, the flag and replaced media with an old snapshot, and two devices whose reports overtake each other (two reports each, `LatestReportsStand`) | 238 893 |
| `storage` | conversions with punctual and with late uploads (`ConversionAgrees`, `BytesAreSafe`, `EndsAreFinal`: what ended or was dispatched stays so); avatars, audio, cover art: all bytes have a record, deletions are thorough, `SafeStore`, outcomes are final | 1 240 807 |
| `video` | a project published by two workers; given covers; uploaded while its administrator is revoked; given a cover while it is published or cancelled: keys are written once, what is published was approved, `PublicationIsSafe`, the later choice of cover stands | 1 058 798 |
| `people` | tokens, tickets, credentials, shares, listening: who is signed in, what friends see, a last method to sign in stays | 852 399 |
| `graph` | retried commands, commands that meet stale readings, two transactions of three listeners, staff: ties are lawful and a stale command is refused | 1 292 706 |
| `server` | seats, gateway, drain, media admission (two pools), lookup gate (spaced, two at a time), analysis and its walk: limits hold, records are true, nothing shown or found is taken back | 1 483 649 |
| `progress` | the liveness properties of section 5, each part under its own fairness | 219 657 |
| `rooms_readiness`, `seats_closing`, `video_denied` | section 7, violated | stop at the violation |

Why the bounds suffice. Every property of rooms relates at most one room, two
members and one earlier snapshot, except `SlotsAgree` (two rooms, one account,
two memberships of it) and `RoomsAreSafe` (three accounts: the third can be
friend of both of a pair that blocks). Times are the smallest that keep their
order: a preparation and a track of one tick are shorter than the grace of two
and the close of three, so that each can expire while the others run; where
absence is not the subject both are one tick apart. `MaxVersion` allows two to
four changes of each counter, one more than a property compares. `Traffic`
selects the kinds of requests of a part: a part leaves out those which its
properties do not depend on, and together they take every action of `Next`.

In the stores one worker needs two operations to replace its own bytes, and two
workers need one operation to take it from each other; three claims let a
second holder fail as well. A video project of four assets holds a source, its
result and two covers. In the graph three commands are one more than what can
make a reading stale. The limits of `server` are the smallest at which a
reserved place, a shared one and a queue differ. Constants of one run cannot
all be raised within its time; the parts were also checked alone with larger
ones: rooms under recovery with `MaxVersion` 4 (337 712 states), rooms with
absence with `MaxVersion` 4 (229 319), conversions with punctual uploads by two
workers (990 569) and with three claims by one (427 737), gateway liveness with
a report (112 520), the drain's with three requests (56 161). The
inductive invariants of section 6 were checked as invariants as well: that of
the rooms on all parts of `MCRooms` but `reports`, that of conversions on instances of
427 737, 248 372 and 1 926 325 states, those of the video projects, with the
step relations their proofs go through, on five of up to 727 244 states.

Deadlock is not checked where a bounded supply (claims, versions, commands,
counters) or the system's own end (a stopped process, a room whose generation
reached its limit and refuses everything) can leave nothing to do.

Each property is broken by a mutant of the code's definitions (`mutants` in
`PROJECT.json`, the operators marked "Mutant" in the modules): the repair of a
slot by account instead of membership, a block that only the host executes, an
offer that survives a takeover, a queue edit that keeps its revision, a timer
that does not compare its candidate, a lease that is not compared before a
checkpoint, and so on.

## 5. Fairness

Fairness is stated per component inside `MCProgress`'s properties, since a
behaviour of one part leaves the others where they begin. It is what the code's
own scheduling gives, and nothing is assumed of clients: no command, heartbeat,
report or press of a button is fair.

- Authority (`RoomsHaveALeader`): each running process keeps executing its timer
  (`setInterval`, `roomGateway.ts:331-367`: every 250 ms, renewing every 3 s),
  the database answers or the call fails, time passes, and a transaction ends.
  Applying and returning are strongly fair: a call may be lost, not every one.
- Rooms (`EveryOccurrenceEnds`, `EveryAbandonedRoomCloses`): time passes, and the
  sweep of each open room, with a candidate it has just read, is not postponed
  for ever while it has something to do. The second holds only while some
  process is authority, which is the previous property of the other module.
  Both except rooms stuck at `MaxVersion`.
- Gateway, tickets, listening (`ViewsCatchUp`): the tick of the process, its
  loop and each client's chain run; a request that was sent is answered or
  fails; a browser's report is delivered if it is sent for ever.
- Drain (`StopsEnd`): its three deadlines pass. Work may hang and sockets stay.
- Video (`CancelledProjectsAreCleaned`): one worker keeps polling, leases and
  upload windows lapse, a PUT that was sent ends; faults are bounded.

## 6. Proofs

Eight modules hold theorems. Each proves, for every value of the constants that
its component's named assumptions admit, that an inductive invariant is kept by
every action, and takes the theorems from it. TLC checked every invariant and
action property first.

### The authority

`RoomAuthorityProofs`, for any set of processes and transactions, any lease
length and counter limit, from the assumptions in `RoomAuthority`:

- `TypeCorrect`, `GrantsCorrect`: `Spec => []TypeOK`, `Spec => []AuthorityInv`.
  Neither is inductive alone. That an epoch stays in range needs to know that
  only a fenced transaction commits (`FenceHolds`), that needs to know where
  epochs in flight can come from (`GrantsAreSound`: held, answered, captured
  and about-to-be-freed epochs are positive, at most the document's, and name
  its owner when equal). Their conjunction with the types is the inductive
  invariant `IInv`; `InitIInv`, `TypeStep` and one lemma per conjunct take the
  actions one by one.
- `EpochsAreNotShared`: two processes with one epoch would both be the owner.
- `ImplementsFencedWriter`: `Spec => CommitsAreFenced`, step by step: only
  `Commit` changes the abstract state, and `FenceHolds` supplies its guard.
- `LapseAlwaysChangesEpoch`, `ReleaseFreesOwnGrantOnly`: action properties, by
  the update's epoch rule and by what a release in flight can name.

### The room service

Three modules, for any rooms, accounts, devices, sessions, tracks, times and
limits. They assume `RoomsAssumption` and `QueuesAssumption` (the orders between
the times that the code's constants have; evaluated by TLC in `MCRooms`), that a
session belongs to one account (`SessionAssumption`, which the code's session
rows give by construction) and that the markers for "no row" and "closed" are
not themselves records (`NullAssumption`, `PrepAssumption`; in the
configurations they are model values, and TLC cannot evaluate membership of a
model value in an infinite set of records, so these stand as hypotheses of the
theorems and not as assumptions of the module).

**`RoomsProofs`** - who is in which room. It begins with lemmas about the
functions of the room document: most of them rewrite playback, queue or presence
and leave the members, the host, the controllers and the offer alone; `Framed`
says so once. The inductive invariant `IInv` joins
the shapes of the rows (`Rows`: among others, a membership id in use never
exceeds its account's count of admissions, so that a new one is new), sound
documents (host among the members, one membership per account, an offer of the
current host and control generation, attached devices signed in), `Graph` (who
blocks is not a friend), `SlotsAgree`, `NoBlockInside` and
`InvitationsAreCurrent`. None of the last three is inductive alone: a block
removes an account from a room through its participation row, so that nobody
who must be apart stays inside rests on `SlotsAgree`; an accepted invitation
admits because it is the current host's, and `SlotsAgree` rests on admissions
being of accounts without a row. Theorems `ParticipationAgrees`
(`SlotsAgree`), `NobodyMeetsABlock` (`RoomsAreSafe`) and `HostChangesByConsent`
(`HostOnlyByConsent`, an action property).

Its last part proves `ReadinessIsReported`: a member that counts as ready
is attached, not locally paused, and said so last. The property says nothing
about a member whose report is older than its controller; the invariant
`Readiness` does (`Honest`), and is proved beside `IInv` because a takeover or a
sign-out finds the member through its row.

**`RoomDocumentProofs`**, **`RoomPlaybackProofs`** - what is played. The first is
about one document and mentions no transaction: most functions `Lull` a room,
they keep its story (timeline, preparation, queue and members agree), its names
(a version that stays keeps what it stands for) and start nothing; only
`Prepare` and `FinishPreparation` start playback. The second puts them together
along the actions: its invariant `PInv` says that every open room tells a story
within its bounds and that each version of a held snapshot is no newer than the
room's and, while equal, stands for what the holder saw. `Turns` is what may
become of one room in a step, `Told` what a step does to all of them; one lemma
per action shows `IInv /\ PInv => Told`. The stages of the sweep (presence,
suspension, preparation, advance) are composed by one lemma, which is where
"the host has been away for the whole grace" must survive from the first stage
to the last. The theorems state seven of the runs' properties for every instance:
`DocumentsKeepTheirShape` (`RoomsTypeOK`), `PlaybackTellsOneStory`
(`PlaybackAgrees`), `HeldVersionsAreNames` (`VersionsAreNames`),
`EveryStartIsSupervised`, `WhatIsShownIsRevised`, `SkipsLandWhereSeen` and
`AdvancesHappenOnce`; the last two are about a late command and a late timer,
and rest on `VersionsAreNames`.

### The conversion service

**`ConversionProofs`**, for any number of operations, workers, claims and edits,
from `ConversionAssumption`. The protocol alternates transactions with calls to
the store and keeps a copy of the operation in between, so the invariant `Inv`
is about that copy: while a call holds an operation's lease its copy is exact,
it knows where its object is, and it shares the lease with nobody
(`LeasesDiffer`, `OpOK`, `CallOK`); the stages of an operation and the
reservation of the track agree (`StagesOK`, `TrackOK`). A call that lost its
lease may still reach the store but changes no document. From it:
`TrackAndStoreAgree` (`ConversionAgrees`: types, reservations, and that a
cancelled conversion leaves nothing), `EndsFinal` (`EndsAreFinal`),
`ImplementsSafeStore` (`BytesAreSafe`, the refinement of `SafeStore`, step by
step) and `ReplacedBytesRemembered`. The last needs `LatePuts = FALSE`: with PUTs that
are accepted after their lease expired, TLC finds a counterexample with three
claims. The code's lease (300 s) outlasts its PUT (90 s), which is why the
replaced bytes are safe. The others hold with late PUTs as well; `storage` checks them
with and without.

### The video projects

Three modules, for any uploads, workers, objects, commands and faults, from
`VideoAssumption`. Workers take turns under a lease that can lapse while its
holder still runs, uploads and reconciliations go on beside them, and every
call to the store may be answered late, lose its answer or take effect after
its caller is gone.

**`VideoProofs`** - the shapes and the requests. `Bounds` says what the variables
are and that the document, the workers and the calls point to objects it names;
`FreshOK` relates the revision each request for a cover carries to the choice
that stands: one made at an older revision is older than the choice.
`RequestsInductive` keeps both, `ChoiceStands` proves `LaterChoiceStands`.

**`VideoPublicationProofs`** - what is published. The invariant `Safe` joins what
the publication says of its copies (`PublicationOK`), what is stored while the
project lives (`StoreOK`), and what a call or a worker knows (`CallsOK`,
`WorkerOK`): a publisher under its lease handles the object the document names
(`HoldOK`), a cleanup handles none a track shows, its lease lost or not
(`CleanOK`), and what a worker has seen stored is stored (`SightOK`). The last
two need that a project which ended never lives again, and that is false if a
refused claim may write what its poll saw before another worker published
(section 7). `NoRivals` is exactly that case excluded: the administrator keeps
the role, or there is one worker. `RolesOK` is the invariant's part about it.
Theorems `ApprovedPublished` (`ApprovedIsPublished`), `PublishedKept`
(`PublishedIsKept`) and `PublicationSafe` (`PublicationIsSafe`, the refinement of
`SafeStore`, step by step).

**`VideoObjectsProofs`** - how often an object is written. An object is `Landing`
while a PUT of it is under way or may still be accepted, and `Over` when it was
sent and nothing lands any more. The invariant `Written` says of each object that
it is sent before it lands, over before it is known or stored, not landing once
settled, and deleted only if it is past and its project at an end (`ObjectsOK`);
that whoever is about to send it is its only sender (`PutsOK`: a worker under
its live lease, or the upload that named it); and that what a worker's or a
call's last look has shown is still so (`SeenOK`, `SweepOK`, `AnswerOK`). One
lemma per action shows that a step ages objects and names new ones as `Objects`
allows and moves the store as `Stored` does; nothing that was over begins again
follows from these two alone (`ObjectsEvolve`). `CountsOK` adds the bounds on covers
and uploads, for which a cover that is deleted must not make room in a project
that still lives. Theorem `ObjectsWrittenOnce` (`ObjectsAreWrittenOnce`: types,
`SentOnce`, `DeletedIsGone`), under `NoRivals` as well, because a cleanup records
as deleted only while the project stays at an end.

### What stays with TLC

- Liveness: fairness and ENABLED are outside the prover's reach.
- The invariants and action properties of components without a proof module:
  what the other stores remember and delete (`BytesAreAccountedFor`,
  `DeletionsAreThorough`), sessions, credentials, shares and listening
  (`SessionsAreLawful`, `FriendsSeeTheTruth`), the social graph (`TiesAreLawful`),
  seats, gateway, drain, admission, gate and analysis (`LimitsHold`,
  `RecordsAreTrue`). Each of these invariants is a conjunction over several modules that
  share nothing, so a theorem about it needs the invariants of all of them; TLC
  checks them together on the instances of section 4.
- `LatestReportsStand`: it relates the reports of a member to those counted in
  the round of a preparation, which the invariants proved above do not name.
- What a fold computes for every input (induction over data).
- The properties the violated runs are about: they are false.

## 7. Disagreements between code and documentation

Three are shown by runs.

**A device that left is counted as ready** (`rooms_readiness`).
`docs/architecture/rooms.md:232` says that a disconnect clears readiness and
`docs/business-rules.md:506` that playback stays paused if nobody is ready.
`disconnected()` (`roomService.ts:894-909`) clears the member's readiness, but
the entry of the running preparation keeps its `ready` flag, and
`finishPreparation` counts the flags of whoever is connected when it runs. A
device that reported ready, dropped and reconnected under the same controller
generation within the three seconds is therefore counted, and the timeline
starts although no member is ready. The other three ways the sentence lists are
handled: a local pause removes the device from the cohort at its heartbeat, a
takeover cancels the preparation, and a revoked session cannot come back.

**Closing sockets exceed the ceiling** (`seats_closing`). `seatState`
(`roomGateway.ts:74`) counts open sockets only, yet a client whose socket is
closing still counts as a replacement, for which no seat is judged: the process
holds more sockets than `socialCapacity.ts:13` says it ever does. The seats part
of `server` checks the ceiling with sockets that close at once.

**A finished publication is set to failed** (`video_denied`). A worker that is
refused its claim writes `failed` where its earlier poll saw work
(`adminVideoWorker.ts:273-274`), if the lease is still as polled; "no lease" is
"no lease" again after another process claimed, published and released. The
project can then be cancelled, and its cleanup deletes the published object.
It takes two processes and an administrator whose role is revoked and granted
again in between; `video` keeps the role, or has one worker.

Three more were found by TLC while the modules were written; the modules state
them, and no run of its own shows them:

- A call that finds its conversion ended holds a copy with the lease of whoever
  is finishing it, and `release()` frees that lease, though
  `conversionService.ts:188` says "only this exact worker can release its own
  lease" (`Conversion!OwnLeaseReleased`). Nothing above depends on it: calls of
  an operation that ended only repeat what is idempotent.
- An upload of audio that is interrupted between the object store and the track
  may be refused when it is retried, which `docs/features/media-lifecycle.md:46`
  says it can be (`AudioStorage!InterruptedIsRetryable`).
- A refresh that is overtaken by stragglers of the same client can be signed out
  although nobody replayed a token (`docs/business-rules.md:3014`;
  `RefreshTokens` with `Stragglers`, `RefusedForCause`).

## 8. Not modelled

Parts left out of a module that exists:

- `Rooms`: reactions, notices and their budgets (no property of rooms reads
  them); the receipts of `mutate` (`SocialGraph` and `Listening` have receipts
  of the same kind); suppression of solo listening; the outbox's revision;
  projection limits and discovery (reads); titles and URLs. Revocation of "all
  other sessions" is a sequence of single revocations, where the code has one
  transaction. Friend requests before acceptance are in `SocialGraph`.
- `RoomGateway`: stop and drain, addresses, size limits and backpressure, the
  version of `socialChanged`. `RealtimeSeats`: addresses and upgrade rates.
- `SocialGraph`: handles, aliases, day budgets, reports, the rollout flag, and
  what its commands do to rooms (in `Rooms`) and shares (in `MusicShares`).
- `RefreshTokens`: browser cookies, session expiry. `Credentials`:
  creation of an account by a provider, deletion of accounts, signature counters
  of passkeys, mail budgets.
- `Listening`: occurrences of rooms, fingerprints, budgets, claim deadlines, the
  friends' projection. `MusicShares`: day budget, listing, receipts.
- `Conversion`: the encoder and its progress. `AudioStorage`: the migration of
  optional video, preview objects in a deletion, publication recovery.
  `AvatarStorage`: variants without a lease, expiry of receipts, the account's
  fence. `CoverArt`: media tracks as owners, legacy hooks, derivatives, explicit
  reconciliation.
- `VideoProject`, `VideoWorker`: revisions and receipts of commands, titles and
  credits, progress writes, the limit of 64 projects, previews, decoder checks.
  Assumed: a PUT ends at least a minute before `settleAfter`, and a lease of 30
  minutes does not lapse within one.
- `LookupGate`: the providers, the response cache, the gate within a process.
  `RoomAnalysis`: decoders. `AnalysisBackfill`: dry runs, durations.
- `RequestDrain`: rate windows, abort signals, start-up. `MediaAdmission`: metrics.

Components without a module are listed in `PROJECT.json` with their reasons:
upgrade protection and counters, change notification, wire contracts, motion
previews (leased jobs of the conversion's shape), the web client beyond its side
of the gateway's protocol, and catalogue, playlists, library, localisation and
portfolio, which are create/read/update over single documents.
