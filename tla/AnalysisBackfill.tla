-------------------------- MODULE AnalysisBackfill ---------------------------
(***************************************************************************)
(* The operator's walks through the catalog: roomAudioAnalysisBatch takes  *)
(* one page, roomAudioAnalysisBackfill every page.  A walk that stopped or *)
(* was killed is resumed from the cursor it last left.  Rows are their     *)
(* ids; the analysis of a row is one step here (RoomAnalysis has its own). *)
(***************************************************************************)
EXTENDS Naturals, FiniteSets, FiniteSetsExt

CONSTANTS
    Rows,        \* how many rows the listing scans
    PageSize, MaxAnalyses,
    MaxRuns      \* bound: runs of the command

BackfillAssumption == {Rows, PageSize, MaxAnalyses, MaxRuns} \subseteq Nat \ {0}

VARIABLES
    status,   \* what the listing says of each row; a video is scanned and not listed
    mode, run,
    page,     \* rows of the page still to do, and the cursor after it (0: none)
    safeAfter,
    logged,   \* the cursor an operator would resume from
    analyses,
    results   \* the last result a walk recorded of each row

vars == <<status, mode, run, page, safeAfter, logged, analyses, results>>

Row == 1..Rows
\* Open: not analysed, or to retry; settled: eligible, unsupported or unavailable.
Statuses == {"open", "running", "settled", "video"}
NoPage == [items |-> <<>>, listed |-> {}, next |-> 0]
\* Settled: complete or unsupported; later: busy, stale or a failure of this source; stop: the rest.
Outcomes == {"settled", "later", "stop"}

\* No run analyses more than it may, and the cursor of a run does not move back.
TypeOK ==
    /\ status \in [Row -> Statuses]
    /\ mode \in {"batch", "backfill"} /\ run \in {"none", "list", "page", "over", "finished"} \X (0..MaxRuns)
    /\ page.listed \subseteq Row /\ page.next \in 0..Rows
    /\ analyses \in 0..Rows /\ (mode = "backfill" => analyses <= MaxAnalyses)
    /\ safeAfter \in 0..Rows /\ logged \in 0..safeAfter

Init ==
    /\ status \in [Row -> Statuses] /\ mode \in {"batch", "backfill"}
    /\ run = <<"none", 0>> /\ page = NoPage /\ safeAfter = 0 /\ logged = 0
    /\ analyses = 0 /\ results = [r \in Row |-> "none"]

-----------------------------------------------------------------------------
At(place) == run[1] = place
Goto(place) == run' = <<place, run[2]>>

Start == /\ run[1] \in {"none", "over"} /\ run[2] < MaxRuns
         /\ run' = <<"list", run[2] + 1>> /\ safeAfter' = logged /\ analyses' = 0
         /\ UNCHANGED <<status, mode, page, logged, results>>

\* list: the next rows, of which the audio ones are items, and the last row scanned.
Scanned(after) == {r \in Row : r > after /\ Cardinality({q \in Row : after < q /\ q <= r}) <= PageSize}

\* Mutant: one row read beyond the page is not a page.
MoreThanOne(rows, after) == Cardinality({r \in Row \ rows : r > after}) > 1

More(rows, after) == \E r \in Row \ rows : r > after

List ==
    /\ At("list")
    /\ LET after == IF page.next > 0 THEN page.next ELSE safeAfter
           rows == Scanned(after)
       IN page' = [items |-> [r \in rows |-> status[r]], listed |-> {r \in rows : status[r] # "video"},
                   next |-> IF More(rows, after) THEN Max(rows) ELSE 0]
    /\ Goto("page")
    /\ UNCHANGED <<status, mode, safeAfter, logged, analyses, results>>

\* Mutant: every result moves the cursor.
PassesOverAll(listed, outcome) == TRUE

\* A result a walk may pass: the batch stops wherever there is something left to do.
PassesOver(listed, outcome) ==
    \/ listed = "settled" \/ outcome = "settled"
    \/ mode = "backfill" /\ (listed = "running" \/ outcome = "later")

\* Mutant: one analysis more than allowed.
PastLimit == mode = "backfill" /\ analyses > MaxAnalyses

\* Only the backfill counts; a batch has its page.
AtLimit == mode = "backfill" /\ analyses >= MaxAnalyses

\* A backfill logs each result before it goes on.
Record(r, listed, outcome) ==
    LET passes == PassesOver(listed, outcome)
    IN /\ page' = IF passes THEN [page EXCEPT !.listed = @ \ {r}] ELSE NoPage
       /\ safeAfter' = IF passes THEN r ELSE safeAfter
       /\ logged' = IF mode = "backfill" \/ ~passes THEN safeAfter' ELSE logged
       /\ results' = [results EXCEPT ![r] = IF outcome = "none" THEN listed ELSE outcome]
       /\ IF passes THEN UNCHANGED run ELSE Goto("over")

Item ==
    /\ At("page") /\ page.listed # {}
    /\ LET r == Min(page.listed)
           listed == page.items[r]
       IN \/ /\ listed # "open" /\ Record(r, listed, "none") /\ UNCHANGED <<status, analyses>>
          \/ /\ listed = "open" /\ ~AtLimit /\ analyses' = analyses + 1
             /\ \E outcome \in Outcomes :
                  /\ status' = IF outcome = "settled" THEN [status EXCEPT ![r] = "settled"] ELSE status
                  /\ Record(r, listed, outcome)
          \/ /\ listed = "open" /\ AtLimit /\ Goto("over")
             /\ page' = NoPage /\ logged' = safeAfter /\ UNCHANGED <<status, safeAfter, analyses, results>>
    /\ UNCHANGED mode

\* The scanned cursor passes rows that are no items.
EndPage ==
    /\ At("page") /\ page.listed = {}
    /\ IF page.next = 0
       THEN Goto("finished") /\ page' = NoPage /\ UNCHANGED <<safeAfter, logged>>
       ELSE /\ safeAfter' = page.next
            /\ IF mode = "backfill" THEN Goto("list") /\ UNCHANGED <<page, logged>>
               ELSE Goto("over") /\ page' = NoPage /\ logged' = safeAfter'
    /\ UNCHANGED <<status, mode, analyses, results>>

\* The operator cancels: the walk stops where it is safe; or its process is killed.
Cancel == /\ run[1] \in {"list", "page"} /\ Goto("over") /\ page' = NoPage
          /\ logged' \in {safeAfter, logged}
          /\ UNCHANGED <<status, mode, safeAfter, analyses, results>>

\* Others analyse a row meanwhile, or replace its file.
Others == /\ run[1] \in {"list", "page"}
          /\ \E r \in Row, s \in {"open", "running", "settled"} :
               status[r] \notin {"video", s} /\ status' = [status EXCEPT ![r] = s]
          /\ UNCHANGED <<mode, run, page, safeAfter, logged, analyses, results>>

Next == Start \/ List \/ Item \/ EndPage \/ Cancel \/ Others

Spec == Init /\ [][Next]_vars

-----------------------------------------------------------------------------
\* What a walk may leave behind: a later one started afresh retries the rest.
Resolved(r) ==
    status[r] = "video" \/ results[r] = "settled" \/ (mode = "backfill" /\ results[r] \in {"running", "later"})

\* Wherever a walk stops or dies, every row before the cursor it leaves had a
\* result that may be passed; what was left unresolved is met again.
NothingIsSkipped == \A r \in Row : r <= logged => Resolved(r)

\* A walk that says it is finished has met every row, over however many runs.
FinishedMeansAll == At("finished") => \A r \in Row : Resolved(r)
=============================================================================
