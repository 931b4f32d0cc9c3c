------------------------------ MODULE Listening ------------------------------
(***************************************************************************)
(* What a listener is playing now, as its friends are shown it: the        *)
(* preference and the publication of listeningService, and the publisher   *)
(* of each browser (listeningSession).  A gesture claims the account's     *)
(* publishing device; reports of playing and stopping follow, and may      *)
(* overtake each other or be lost.  A status expires on its own: here it   *)
(* may at any time.  Commands keep receipts as in SocialGraph.             *)
(***************************************************************************)
EXTENDS Integers, Sequences

CONSTANTS
    Device,
    MaxCommands, MaxRuns, MaxIntents, MaxReports, MaxPublisher    \* bounds

ListeningAssumption == {MaxCommands, MaxRuns, MaxIntents, MaxReports, MaxPublisher} \subseteq Nat

VARIABLES
    owner,       \* the account's preference, with its revision and the publisher's
    publication, \* the server's lease, and the run it shows
    receipts,    \* the outcomes of the commands so far
    wire,        \* requests and answers on their way
    device,      \* per browser, its intent, command, playback and lease
    read,        \* per browser, the owner's state on its way
    runs,        \* how many runs of actual playback there have been
    stopped, lost   \* the stops the server took, and the leases of which a report was lost

vars == <<owner, publication, receipts, wire, device, read, runs, stopped, lost>>

NoPublication == [id |-> 0, by |-> "none", pref |-> 0, publisher |-> 0, seq |-> 0, playSeq |-> 0, blocked |-> 0, run |-> 0, visible |-> FALSE]
NoLease == [id |-> 0, pref |-> 0, publisher |-> 0, seq |-> 0, intent |-> 0, playSeq |-> 0, current |-> 0]
NoCommand == [id |-> 0, kind |-> "none", pref |-> 0, publisher |-> 0, intent |-> 0]
Unread == [enabled |-> TRUE, rev |-> -1, publisher |-> -1]
Fresh == [intent |-> 0, wanting |-> FALSE, blockedOff |-> FALSE, known |-> Unread, stage |-> "idle", command |-> NoCommand,
          actual |-> 0, latest |-> 0, lease |-> NoLease]
Owned(l, o) == o.enabled /\ <<l.pref, l.publisher>> = <<o.rev, o.publisher>>

\* Every part is well formed, and a publication belongs to the preference and publisher of now.
TypeOK ==
    /\ owner.publisher \in 0..MaxPublisher
    /\ DOMAIN publication = DOMAIN NoPublication /\ publication.run \in 0..runs
    /\ publication # NoPublication => Owned(publication, owner)
    /\ \A d \in Device : /\ DOMAIN device[d] = DOMAIN Fresh /\ device[d].lease.seq \in 0..MaxReports
                         /\ device[d].stage \in {"idle", "asking", "sent", "uncertain", "learned", "confirming"}
    /\ \A m \in wire : m.type \in {"command", "report", "answer"} /\ m.by \in Device
    /\ Len(receipts) <= MaxCommands /\ runs \in 0..MaxRuns

Init ==
    /\ owner \in {[enabled |-> FALSE, rev |-> 0, publisher |-> 0], [enabled |-> TRUE, rev |-> 1, publisher |-> 0]}
    /\ publication = NoPublication /\ receipts = <<>> /\ wire = {}
    /\ device = [d \in Device |-> Fresh] /\ read = [d \in Device |-> Unread]
    /\ runs = 0 /\ stopped = {} /\ lost = {}

-----------------------------------------------------------------------------
(* The browser.  What it does is its next state and the reports it sends. *)
Silent(dev) == [dev |-> dev, out |-> {}]
Report(d, dev, stop, run, playSeq) ==
    [type |-> "report", by |-> d, id |-> dev.lease.id, pref |-> dev.lease.pref, publisher |-> dev.lease.publisher,
     seq |-> dev.lease.seq + 1, stop |-> stop, run |-> run, playSeq |-> playSeq]

\* The lease is left room for the stop of what it publishes.
Publish(d, dev) ==
    IF /\ dev.latest # 0 /\ ~dev.blockedOff /\ dev.known.enabled
       /\ dev.lease.id # 0 /\ dev.lease.intent = dev.intent /\ dev.lease.seq < MaxReports - 1
    THEN [dev |-> [dev EXCEPT !.lease = [@ EXCEPT !.seq = @ + 1, !.playSeq = dev.lease.seq + 1, !.current = dev.latest]],
          out |-> {Report(d, dev, FALSE, dev.latest, 0)}]
    ELSE Silent(dev)

StopRun(d, dev, run) ==
    IF run # 0 /\ dev.lease.current = run
    THEN [dev |-> [dev EXCEPT !.lease = [@ EXCEPT !.seq = @ + 1, !.current = 0]],
          out |-> {Report(d, dev, TRUE, run, dev.lease.playSeq)}]
    ELSE Silent(dev)

Does(d, result) == device' = [device EXCEPT ![d] = result.dev] /\ wire' = wire \union result.out
ServerUnchanged == UNCHANGED <<owner, publication, stopped>>

\* A gesture is what may claim, once what is under way has ended; it gives up an uncertain claim of before.
Gestured(dev) ==
    LET gives == dev.stage = "uncertain" /\ dev.command.kind = "claim" /\ ~dev.blockedOff
    IN  [dev EXCEPT !.intent = @ + 1, !.latest = 0,
                    !.wanting = ~dev.blockedOff /\ dev.known.enabled /\ (dev.stage = "uncertain" => gives),
                    !.stage = IF gives THEN "idle" ELSE @, !.command = IF gives THEN NoCommand ELSE @]

\* To use this device is a gesture that ends the silence.
Gesture(d, use) ==
    LET dev == device[d] IN
    /\ dev.intent < MaxIntents
    /\ use => dev.blockedOff /\ dev.known.enabled /\ (dev.stage = "idle" \/ (dev.stage = "uncertain" /\ dev.command.kind = "claim"))
    /\ Does(d, Silent(Gestured([dev EXCEPT !.blockedOff = @ /\ ~use])))
    /\ ServerUnchanged /\ UNCHANGED <<receipts, read, runs, lost>>

\* accept: a run begins, or goes on; what is reported of it depends on the lease.
Play(d) ==
    /\ device[d].actual # 0 \/ runs < MaxRuns
    /\ LET run == IF device[d].actual # 0 THEN device[d].actual ELSE runs + 1 IN
       /\ runs' = IF run > runs THEN run ELSE runs
       /\ Does(d, Publish(d, [device[d] EXCEPT !.actual = run, !.latest = run]))
    /\ ServerUnchanged /\ UNCHANGED <<receipts, read, lost>>

Stop(d) ==
    /\ device[d].actual # 0
    /\ Does(d, StopRun(d, [device[d] EXCEPT !.actual = 0, !.latest = 0], device[d].actual))
    /\ ServerUnchanged /\ UNCHANGED <<receipts, read, runs, lost>>

\* setEnabled: to stop sharing silences the browser at once, whatever becomes of the command.
SetSharing(d, on) ==
    LET dev == [device[d] EXCEPT !.blockedOff = @ \/ ~on, !.latest = IF on THEN @ ELSE 0]
        asks == [dev EXCEPT !.stage = "asking",
                            !.command = [NoCommand EXCEPT !.kind = IF on THEN "on" ELSE "off", !.pref = dev.known.rev, !.intent = dev.intent]]
    IN  /\ dev.known # Unread /\ dev.known.enabled # on /\ (on => dev.stage = "idle")
        /\ Does(d, StopRun(d, IF dev.stage = "idle" THEN asks ELSE dev, IF on THEN 0 ELSE dev.lease.current))
        /\ ServerUnchanged /\ UNCHANGED <<receipts, read, runs, lost>>

\* perform: the command is prepared, and sent unless the gesture behind it is no longer the last.
Dispatch(d) ==
    LET dev == device[d]
        command == [dev.command EXCEPT !.id = Len(receipts) + 1]
    IN  /\ dev.stage = "asking"
        /\ IF dev.command.kind = "claim" /\ dev.command.intent # dev.intent
           THEN /\ Does(d, Silent([dev EXCEPT !.stage = "idle", !.command = NoCommand])) /\ UNCHANGED receipts
           ELSE /\ Len(receipts) < MaxCommands
                /\ receipts' = Append(receipts, "none")
                /\ Does(d, [dev |-> [dev EXCEPT !.stage = "sent", !.command = command],
                            out |-> {[type |-> "command", by |-> d, command |-> command]}])
        /\ ServerUnchanged /\ UNCHANGED <<read, runs, lost>>

\* The answer does not come: the outcome stays uncertain until it is looked up, or the command sent again,
\* but for a claim that a later gesture has replaced.
Uncertain(d) ==
    /\ device[d].stage = "sent"
    /\ LET dev == device[d]
           replaced == dev.wanting /\ dev.command.kind = "claim" /\ ~dev.blockedOff IN
       Does(d, Silent([dev EXCEPT !.stage = IF replaced THEN "idle" ELSE "uncertain", !.wanting = replaced,
                                  !.command = IF replaced THEN NoCommand ELSE @]))
    /\ ServerUnchanged /\ UNCHANGED <<receipts, read, runs, lost>>

Retry(d) ==
    /\ device[d].stage = "uncertain"
    /\ Does(d, [dev |-> [device[d] EXCEPT !.stage = "sent"], out |-> {[type |-> "command", by |-> d, command |-> device[d].command]}])
    /\ ServerUnchanged /\ UNCHANGED <<receipts, read, runs, lost>>

Learn(d) ==
    /\ device[d].stage \in {"sent", "uncertain"} /\ receipts[device[d].command.id] # "none"
    /\ Does(d, Silent([device[d] EXCEPT !.stage = "learned"]))
    /\ ServerUnchanged /\ UNCHANGED <<receipts, read, runs, lost>>

\* refresh: one read at a time; the one that confirms an outcome begins after it is known.
Fetch(d) ==
    /\ read[d] = Unread
    /\ read' = [read EXCEPT ![d] = owner]
    /\ Does(d, Silent([device[d] EXCEPT !.stage = IF @ = "learned" THEN "confirming" ELSE @]))
    /\ ServerUnchanged /\ UNCHANGED <<receipts, runs, lost>>

\* Mutant: a lease is kept whatever the owner's state has become.
KeepsLease(dev, value) == [dev EXCEPT !.known = value]

Ingested(dev, value) ==
    [dev EXCEPT !.known = value, !.lease = IF Owned(@, value) THEN @ ELSE NoLease]

Settle(d, dev) ==
    LET c == dev.command
        applied == receipts[c.id] = "applied"
        settled == [dev EXCEPT !.stage = "idle", !.command = NoCommand, !.blockedOff = @ /\ ~(applied /\ c.kind = "on")]
    IN  IF /\ applied /\ c.kind = "claim" /\ c.intent = dev.intent
           /\ Owned([pref |-> c.pref, publisher |-> c.publisher + 1], dev.known)
        THEN Publish(d, [settled EXCEPT !.lease = [NoLease EXCEPT !.id = c.id, !.pref = c.pref, !.publisher = c.publisher + 1, !.intent = c.intent]])
        ELSE Silent(IF applied /\ c.kind = "on" THEN Gestured(settled) ELSE settled)

\* claim, with what its refresh found
Claim(d, dev) ==
    IF ~dev.known.enabled THEN Silent([dev EXCEPT !.wanting = FALSE])
    ELSE IF dev.lease.id # 0 THEN Publish(d, [dev EXCEPT !.wanting = FALSE, !.lease.intent = dev.intent])
    ELSE Silent([dev EXCEPT !.wanting = FALSE, !.stage = "asking",
                            !.command = [id |-> 0, kind |-> "claim", pref |-> dev.known.rev, publisher |-> dev.known.publisher, intent |-> dev.intent]])

Ingest(d) ==
    LET dev == Ingested(device[d], read[d]) IN
    /\ read[d] # Unread
    /\ read' = [read EXCEPT ![d] = Unread]
    /\ Does(d, IF dev.stage = "confirming" THEN Settle(d, dev) ELSE IF dev.wanting /\ dev.stage = "idle" THEN Claim(d, dev) ELSE Silent(dev))
    /\ ServerUnchanged /\ UNCHANGED <<receipts, runs, lost>>

\* A read fails: what waited for it ends.
FailRead(d) ==
    /\ read[d] # Unread
    /\ read' = [read EXCEPT ![d] = Unread]
    /\ Does(d, Silent(IF device[d].stage = "confirming" THEN [device[d] EXCEPT !.stage = "idle", !.command = NoCommand]
                      ELSE [device[d] EXCEPT !.wanting = @ /\ device[d].stage # "idle"]))
    /\ ServerUnchanged /\ UNCHANGED <<receipts, runs, lost>>

\* The lease's own deadline passes in the browser.
LeaseEnds(d) ==
    /\ device[d].lease.id # 0
    /\ Does(d, Silent([device[d] EXCEPT !.lease = NoLease]))
    /\ ServerUnchanged /\ UNCHANGED <<receipts, read, runs, lost>>

\* Only the answer to the last report counts.
Answer(m) ==
    LET lease == device[m.by].lease IN
    /\ m.type = "answer"
    /\ device' = IF ~m.ok /\ <<lease.id, lease.seq>> = <<m.id, m.seq>> THEN [device EXCEPT ![m.by].lease = NoLease] ELSE device
    /\ wire' = wire \ {m}
    /\ ServerUnchanged /\ UNCHANGED <<receipts, read, runs, lost>>

-----------------------------------------------------------------------------
(* The server. *)
Retired == owner' = [owner EXCEPT !.publisher = @ + 1] /\ publication' = NoPublication

\* Mutant: to stop sharing leaves the publication to expire.
TurnOffLater ==
    /\ owner' = [owner EXCEPT !.enabled = FALSE, !.rev = IF owner.enabled THEN @ + 1 ELSE @, !.publisher = @ + 1]
    /\ UNCHANGED publication

TurnOff ==
    /\ owner' = [owner EXCEPT !.enabled = FALSE, !.rev = IF owner.enabled THEN @ + 1 ELSE @, !.publisher = @ + 1]
    /\ publication' = NoPublication

\* plan, once: a command that is sent again finds its receipt.
Execute(m) ==
    /\ m.type = "command"
    /\ wire' = wire \ {m}
    /\ LET c == m.command IN
       IF receipts[c.id] # "none" THEN UNCHANGED <<owner, publication, receipts>>
       ELSE /\ receipts' = [receipts EXCEPT ![c.id] =
                 IF c.pref = owner.rev /\ (c.kind = "claim" => owner.enabled /\ c.publisher = owner.publisher) THEN "applied" ELSE "rejected"]
            /\ IF receipts'[c.id] = "rejected" \/ (c.kind # "claim" /\ owner.enabled = (c.kind = "on")) THEN UNCHANGED <<owner, publication>>
               ELSE /\ owner.publisher < MaxPublisher
                    /\ CASE c.kind = "on" -> owner' = [owner EXCEPT !.enabled = TRUE, !.rev = @ + 1] /\ publication' = NoPublication
                         [] c.kind = "off" -> TurnOff
                         [] OTHER -> /\ owner' = [owner EXCEPT !.publisher = @ + 1]
                                     /\ publication' = [NoPublication EXCEPT !.id = c.id, !.by = m.by, !.pref = owner.rev, !.publisher = owner.publisher + 1]
    /\ UNCHANGED <<device, read, runs, stopped, lost>>

\* Mutants: reports taken in whatever order they come, and a stop believed only of what is shown.
AnyOrder(m) == publication.id = m.id /\ publication.by = m.by /\ Owned(m, owner)
ClearsShown(m) == publication.run = m.run

Admits(m) ==
    publication.id = m.id /\ publication.by = m.by /\ Owned(m, owner) /\ m.seq > publication.seq

Clears(m) ==
    publication.run = m.run \/ m.playSeq > publication.playSeq

\* report: its answer says whether the lease is still the browser's; a renewal that is not due only moves the sequence.
TakeReport(m, due) ==
    LET stops == m.stop /\ Clears(m)
        ok == Admits(m) /\ (m.stop \/ m.run # publication.blocked)
        moved == [publication EXCEPT !.seq = m.seq]
    IN  /\ m.type = "report"
        /\ wire' = (wire \ {m}) \union {[type |-> "answer", by |-> m.by, id |-> m.id, seq |-> m.seq, ok |-> ok]}
        /\ publication' = IF ~ok THEN publication
                          ELSE IF stops THEN [moved EXCEPT !.visible = FALSE, !.blocked = m.run]
                          ELSE IF m.stop \/ (m.run = publication.run /\ ~due) THEN moved
                          ELSE [moved EXCEPT !.run = m.run, !.playSeq = m.seq, !.visible = TRUE]
        /\ stopped' = IF ok /\ stops THEN stopped \union {<<m.id, m.run>>} ELSE stopped
        /\ UNCHANGED <<owner, receipts, device, read, runs, lost>>

Lose(m) ==
    /\ wire' = wire \ {m}
    /\ lost' = IF m.type = "command" THEN lost ELSE lost \union {m.id}
    /\ ServerUnchanged /\ UNCHANGED <<receipts, device, read, runs>>

Expire ==
    /\ publication # NoPublication /\ publication' = NoPublication
    /\ UNCHANGED <<owner, receipts, wire, device, read, runs, stopped, lost>>

\* retireListeningPublication, as the track that is shown is removed or replaced
RemoveTrack ==
    /\ publication.run # 0 /\ owner.publisher < MaxPublisher
    /\ Retired
    /\ UNCHANGED <<receipts, wire, device, read, runs, stopped, lost>>

\* The browser's session is revoked: its requests are refused from now on, and it starts afresh after a sign-in.
RevokeSession(d) ==
    /\ device[d] # Fresh /\ owner.publisher < MaxPublisher
    /\ IF publication.by = d THEN Retired ELSE UNCHANGED <<owner, publication>>
    /\ wire' = {m \in wire : m.by # d}
    /\ device' = [device EXCEPT ![d] = [Fresh EXCEPT !.intent = device[d].intent]] /\ read' = [read EXCEPT ![d] = Unread]
    /\ UNCHANGED <<receipts, runs, stopped, lost>>

\* clearListeningAccount
Deactivate ==
    /\ owner.publisher < MaxPublisher
    /\ TurnOff
    /\ UNCHANGED <<receipts, wire, device, read, runs, stopped, lost>>

Next ==
    \/ \E d \in Device : \/ Play(d) \/ Stop(d) \/ Dispatch(d) \/ Uncertain(d) \/ Retry(d) \/ Learn(d)
                         \/ Fetch(d) \/ Ingest(d) \/ FailRead(d) \/ LeaseEnds(d) \/ RevokeSession(d)
                         \/ \E on \in BOOLEAN : SetSharing(d, on) \/ Gesture(d, on)
    \/ \E m \in wire : Answer(m) \/ Execute(m) \/ Lose(m) \/ \E due \in BOOLEAN : TakeReport(m, due)
    \/ Expire \/ RemoveTrack \/ Deactivate

Spec == Init /\ [][Next]_vars

\* Every browser polls the owner's state, and not every read fails.
Fairness == \A d \in Device : WF_vars(Fetch(d)) /\ SF_vars(Ingest(d))

FairSpec == Spec /\ Fairness

-----------------------------------------------------------------------------
(* Once the server has been told that a run stopped, the lease never shows it again, although the report
   that it played may still be on its way. *)
StoppedStaysStopped == publication.visible => <<publication.id, publication.run>> \notin stopped

(* When nothing of a lease was lost and none of it is under way, friends see the run its browser last
   reported and has not stopped: neither a stop nor a start is undone by the order they arrive in. *)
StatusFollowsPlayback ==
    \A d \in Device : LET lease == device[d].lease IN
      (publication.visible /\ publication.id = lease.id /\ lease.id \notin lost /\ \A m \in wire : m.type # "command" => m.id # lease.id)
        => publication.run = lease.current

(* A browser whose lease was taken over, retired or turned off lets go of it, though it may report nothing
   and is told nothing. *)
LeaseLetsGo ==
    \A d \in Device : (device[d].lease.id # 0 /\ ~Owned(device[d].lease, owner)) ~> (device[d].lease.id = 0 \/ Owned(device[d].lease, owner))
=============================================================================
