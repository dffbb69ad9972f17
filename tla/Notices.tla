-------------------------------- MODULE Notices --------------------------------
(***************************************************************************)
(* The notification centre: the cards of what failed, the copy kept for    *)
(* the next visit, and the dialog that gathers a report on one of them.    *)
(***************************************************************************)
EXTENDS Integers, Sequences, SequencesExt, FiniteSets

CONSTANTS
    NoticeJobs,     \* jobs a failure can be about
    NoNoticeJob,    \* a failure about no job
    MaxFailures,    \* cards kept (20 in the code)
    MaxReported,    \* bound: failures reported in a behaviour
    MaxOnCards      \* bound: what the user does to cards and the dialog

ASSUME NoticeAssumption == NoNoticeJob \notin NoticeJobs /\ MaxFailures \in Nat \ {0}

VARIABLES
    cards,     \* failures, the newest first
    saved,     \* the list in the store
    boot,      \* restoring the list: "off", asked, or answered with a list
    report,    \* the dialog: the card it was opened for, what it shows
    asked,     \* requests of the dialog under way
    count      \* failures reported so far, and gestures left

noticeVars == <<cards, saved, boot, report, asked, count>>

Kinds == {"import", "export"}
NoNotice == [id |-> 0, at |-> 0, kind |-> "import", job |-> NoNoticeJob, tail |-> FALSE]
NotBooting == [stage |-> "done", list |-> <<>>]

NoticesInit ==
    /\ cards = <<>> /\ saved = <<>>
    /\ boot = [stage |-> "asked", list |-> <<>>]
    /\ report = [open |-> FALSE, title |-> NoNotice, tech |-> NoNotice]
    /\ asked = {}
    /\ count = [reported |-> 0, left |-> MaxOnCards]

OnCards == count.left > 0 /\ count' = [count EXCEPT !.left = @ - 1]

Capped(list) == SubSeq(list, 1, IF Len(list) < MaxFailures THEN Len(list) ELSE MaxFailures)

(* The positions P in an order: i comes after the others of upTo[i].       *)
Listed(P, upTo) == [n \in 1..Cardinality(P) |-> CHOOSE i \in P : Cardinality(upTo[i]) = n]

(* Array.filter(), for the positions P that stay, and Array.sort() by -at. *)
Kept(list, P) ==
    LET places == Listed(P, [i \in P |-> {k \in P : k <= i}])
    IN [n \in 1..Cardinality(P) |-> list[places[n]]]

NewestFirst(list) ==
    LET P == DOMAIN list
        places == Listed(P, [i \in P |-> {k \in P : list[k].at > list[i].at
                                                     \/ (list[k].at = list[i].at /\ k <= i)}])
    IN [n \in 1..Cardinality(P) |-> list[places[n]]]

(* persist() and render(): the store takes the list as it is now.          *)
Keep(list) == cards' = list /\ saved' = list

----------------------------------------------------------------------------
(* Records.                                                                *)

(* The same failure seen twice: by its job or, when it has none, by its    *)
(* words within five seconds (the card "same" has them).                   *)
IsDupe(f, kind, about, same) ==
    f.kind = kind /\ (IF about # NoNoticeJob THEN f.job = about ELSE f.id = same)

(* The page watches the jobs it finds only once the list is restored:      *)
(* until then a failure is about a job nobody has a card of, or about none.*)
CanReport(about) ==
    about = NoNoticeJob \/ boot.stage = "done"
        \/ \A r \in ToSet(saved) \cup ToSet(boot.list) : r.job # about

NotifyFailure(kind, about, same) ==
    LET now == count.reported + 1
        dupes == {i \in DOMAIN cards : IsDupe(cards[i], kind, about, same)}
        d == CHOOSE i \in dupes : \A k \in dupes : i <= k
        fresh == [id |-> now, at |-> now, kind |-> kind, job |-> about, tail |-> FALSE]
    IN /\ count.reported < MaxReported /\ CanReport(about)
       /\ count' = [count EXCEPT !.reported = now]
       /\ IF dupes = {} THEN Keep(Capped(<<fresh>> \o cards))
          ELSE Keep(Capped(<<[fresh EXCEPT !.id = cards[d].id, !.job = cards[d].job, !.tail = cards[d].tail]>>
                           \o RemoveAt(cards, d)))
       /\ UNCHANGED <<boot, report, asked>>

DismissFailure(id) ==
    /\ OnCards /\ \E r \in ToSet(cards) : r.id = id
    /\ Keep(Kept(cards, {i \in DOMAIN cards : cards[i].id # id}))
    /\ UNCHANGED <<boot, report, asked>>

(* What a failure was about was resolved, or is gone (any kind).           *)
DismissFailuresByJobId(about, kinds) ==
    /\ OnCards /\ \E r \in ToSet(cards) : r.job = about /\ r.kind \in kinds
    /\ Keep(Kept(cards, {i \in DOMAIN cards : ~(cards[i].job = about /\ cards[i].kind \in kinds)}))
    /\ UNCHANGED <<boot, report, asked>>

DismissFailuresByKind(kind) ==
    /\ OnCards /\ \E r \in ToSet(cards) : r.job = NoNoticeJob /\ r.kind = kind
    /\ Keep(Kept(cards, {i \in DOMAIN cards : ~(cards[i].job = NoNoticeJob /\ cards[i].kind = kind)}))
    /\ UNCHANGED <<boot, report, asked>>

ClearFailures ==
    /\ OnCards /\ cards # <<>> /\ Keep(<<>>)
    /\ UNCHANGED <<boot, report, asked>>

----------------------------------------------------------------------------
(* initNotifications(): the store's list is merged with what was reported  *)
(* while it was read; the merged list is not written back.                 *)

ReloadNotices ==
    /\ OnCards
    /\ cards' = <<>> /\ boot' = [stage |-> "asked", list |-> <<>>]
    /\ report' = [open |-> FALSE, title |-> NoNotice, tech |-> NoNotice] /\ asked' = {}
    /\ UNCHANGED saved

StoreAnswers ==
    /\ boot.stage = "asked" /\ boot' = [stage |-> "answered", list |-> saved]
    /\ UNCHANGED <<cards, saved, report, asked, count>>

(* A slip of the code: a failure that is already stored is there twice.    *)
MergedWhole(live, fromStore) == Capped(NewestFirst(live \o fromStore))

Merged(live, fromStore) ==
    LET new == Kept(fromStore, {i \in DOMAIN fromStore : \A l \in ToSet(live) : l.id # fromStore[i].id})
    IN Capped(NewestFirst(live \o new))

RestoreList ==
    /\ boot.stage = "answered" /\ boot' = NotBooting
    /\ cards' = Merged(cards, boot.list)
    /\ UNCHANGED <<saved, report, asked, count>>

----------------------------------------------------------------------------
(* The dialog.                                                             *)

(* A card opened: without its traceback, which is asked for now.           *)
OpenFailureDialog(r) ==
    /\ OnCards /\ r \in ToSet(cards) /\ ~report.open
    /\ report' = [open |-> TRUE, title |-> r, tech |-> NoNotice]
    /\ asked' = asked \cup {[what |-> IF ~r.tail /\ r.job # NoNoticeJob THEN "failure" ELSE "diagnostics",
                             of |-> r]}
    /\ UNCHANGED <<cards, saved, boot>>

HideDialog ==
    /\ report.open /\ report' = [report EXCEPT !.open = FALSE]
    /\ UNCHANGED <<cards, saved, boot, asked, count>>

(* The traceback, written on the record the card was drawn from: a second  *)
(* sighting has put another record in its place.                           *)
FailureComes(q, ok) ==
    LET told == [q.of EXCEPT !.tail = TRUE]
        list == [i \in DOMAIN cards |-> IF cards[i] = q.of THEN told ELSE cards[i]]
    IN /\ q \in asked /\ q.what = "failure"
       /\ asked' = (asked \ {q}) \cup {[what |-> "diagnostics", of |-> told]}
       /\ cards' = list
       /\ saved' = IF ok THEN list ELSE saved
       /\ report' = [report EXCEPT !.title = IF @ = q.of THEN told ELSE @]
       /\ UNCHANGED <<boot, count>>

(* The diagnostics: the text, and what the report buttons send.            *)
DiagnosticsCome(q) ==
    /\ q \in asked /\ q.what = "diagnostics"
    /\ asked' = asked \ {q}
    /\ report' = [report EXCEPT !.tech = q.of]
    /\ UNCHANGED <<cards, saved, boot, count>>

(* "Include recent logs", of what the buttons would send.                  *)
IncludeLogs ==
    /\ OnCards /\ report.open /\ report.tech # NoNotice
    /\ [what |-> "logs", of |-> report.tech] \notin asked
    /\ asked' = asked \cup {[what |-> "logs", of |-> report.tech]}
    /\ UNCHANGED <<cards, saved, boot, report>>

LogsCome(q) ==
    /\ q \in asked /\ q.what = "logs"
    /\ asked' = asked \ {q}
    /\ saved' = cards
    /\ report' = [report EXCEPT !.tech = q.of]
    /\ UNCHANGED <<cards, boot, count>>

NoticesNext ==
    \/ \E k \in Kinds, j \in NoticeJobs \cup {NoNoticeJob}, same \in {0} \cup {r.id : r \in ToSet(cards)} :
          NotifyFailure(k, j, same)
    \/ \E r \in ToSet(cards) : DismissFailure(r.id) \/ OpenFailureDialog(r)
    \/ \E j \in NoticeJobs, ks \in {Kinds, {"export"}} : DismissFailuresByJobId(j, ks)
    \/ \E k \in Kinds : DismissFailuresByKind(k)
    \/ ClearFailures \/ ReloadNotices \/ StoreAnswers \/ RestoreList \/ HideDialog \/ IncludeLogs
    \/ \E q \in asked : (\E ok \in BOOLEAN : FailureComes(q, ok)) \/ DiagnosticsCome(q) \/ LogsCome(q)

NoticesSpec == NoticesInit /\ [][NoticesNext]_noticeVars

----------------------------------------------------------------------------
(* What is expected.                                                       *)

NoticesTypeOK ==
    /\ Len(cards) <= MaxFailures /\ Len(saved) <= MaxFailures
    /\ boot.stage \in {"asked", "answered", "done"}
    /\ \A q \in asked : q.what \in {"failure", "diagnostics", "logs"}

(* One failure, one card, whichever path saw it and however often, across  *)
(* reloads; and the newest first.                                          *)
OneFailureOneCard ==
    \A i, k \in DOMAIN cards : i < k =>
        /\ cards[i].id # cards[k].id /\ cards[i].at > cards[k].at
        /\ cards[i].kind = cards[k].kind /\ cards[i].job \in NoticeJobs => cards[i].job # cards[k].job
=============================================================================
