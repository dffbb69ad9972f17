------------------------------ MODULE PhonePlayer ------------------------------
(***************************************************************************)
(* The phone's page: one engine for the track of the Mixer screen, loaded  *)
(* with two awaits in between, and one extraction of the Extract screen,   *)
(* followed over its stream or, when that breaks, by asking.               *)
(***************************************************************************)
EXTENDS Integers, FiniteSets

CONSTANTS
    Cards,        \* tracks of the phone's library
    NoCard,       \* no track is selected
    PhoneScenes   \* set of scenes: what the user does, and how often

ASSUME PhoneAssumption == NoCard \notin Cards

VARIABLES
    phone,     \* the selected track and its engine
    opening,   \* runs of openTrack() between two awaits
    trashing,  \* tracks whose trash request is under way
    follow,    \* what watches the extraction: its stream, or the asking
    job,       \* state.extractJob and the requests about it
    thumb      \* the scene, and the taps left of it

phoneVars == <<phone, opening, trashing, follow, job, thumb>>

NoEngine == 0
NoFollow == [by |-> "none", job |-> 0]
NoJobCard == [shown |-> FALSE, id |-> 0, split |-> FALSE]

PhoneScene(taps, n) == [taps |-> taps, left |-> n]

(* An engine is the load that made it: engine is the one of the page,      *)
(* alive are those not destroyed, sounding the one that plays.             *)
PhoneInit ==
    /\ thumb \in PhoneScenes
    /\ phone = [current |-> NoCard, token |-> 0, engine |-> NoEngine, of |-> NoCard,
                ready |-> FALSE, pending |-> FALSE, playing |-> FALSE,
                alive |-> {}, sounding |-> NoEngine]
    /\ opening = {} /\ trashing = {}
    /\ follow = NoFollow
    /\ job = [card |-> NoJobCard, posts |-> 0, made |-> 0, asks |-> {}, splits |-> {},
              closing |-> {}, ended |-> {}]

Taps(what) == what \in thumb.taps /\ thumb.left > 0
Tapped == thumb' = [thumb EXCEPT !.left = @ - 1]
JobVars == <<follow, job>>

----------------------------------------------------------------------------
(* The track and its engine.                                               *)

WithoutEngine(p) ==
    [p EXCEPT !.alive = @ \ {p.engine}, !.engine = NoEngine, !.of = NoCard, !.ready = FALSE,
              !.sounding = IF @ = p.engine THEN NoEngine ELSE @]

(* openTrack() as far as its first await.                                  *)
Load(t, autoplay) ==
    /\ phone' = [WithoutEngine(phone) EXCEPT !.current = t, !.playing = FALSE,
                    !.token = @ + 1, !.pending = autoplay]
    /\ opening' = opening \cup {[track |-> t, token |-> phone.token + 1, stage |-> "detail"]}

OpenCard(t) ==
    /\ Taps("open") /\ Tapped
    /\ Load(t, FALSE)
    /\ UNCHANGED <<trashing, JobVars>>

(* prevTrack() and nextTrack(): what played goes on with the next one.     *)
StepTo(t) ==
    /\ Taps("step") /\ Tapped /\ phone.current \notin {NoCard, t}
    /\ Load(t, phone.playing)
    /\ UNCHANGED <<trashing, JobVars>>

TapPlay ==
    /\ Taps("play") /\ Tapped /\ phone.current # NoCard
    /\ IF phone.engine = NoEngine \/ phone.of # phone.current
       THEN Load(phone.current, TRUE)
       ELSE /\ phone' = IF ~phone.ready THEN [phone EXCEPT !.pending = TRUE]
                        ELSE IF phone.sounding = phone.engine
                        THEN [phone EXCEPT !.sounding = NoEngine, !.playing = FALSE]
                        ELSE [phone EXCEPT !.sounding = phone.engine, !.playing = TRUE]
            /\ UNCHANGED opening
    /\ UNCHANGED <<trashing, JobVars>>

(* A slip of the code: whichever load answers goes on.                     *)
StillOpeningAnyway(o) == TRUE

StillOpening(o) == o.token = phone.token

(* What an answer throws away: another track was opened, or the track was  *)
(* deleted and the handler stops at the card that is not there.            *)
OpeningEnds(o) ==
    /\ ~StillOpening(o) \/ phone.current = NoCard
    /\ opening' = opening \ {o}
    /\ phone' \in IF StillOpening(o) /\ o.stage = "engine"
                  THEN {phone, [phone EXCEPT !.ready = TRUE, !.pending = FALSE]} ELSE {phone}
    /\ UNCHANGED <<trashing, JobVars, thumb>>

DetailFails(o) ==
    /\ o.stage = "detail" /\ StillOpening(o) /\ phone.current # NoCard
    /\ opening' = opening \ {o}
    /\ UNCHANGED <<phone, trashing, JobVars, thumb>>

DetailAnswers(o) ==
    /\ o.stage = "detail" /\ StillOpening(o) /\ phone.current # NoCard
    /\ phone' = [phone EXCEPT !.engine = o.token, !.of = o.track, !.alive = @ \cup {o.token}]
    /\ opening' = (opening \ {o}) \cup {[o EXCEPT !.stage = "engine"]}
    /\ UNCHANGED <<trashing, JobVars, thumb>>

EngineIsReady(o, ok) ==
    /\ o.stage = "engine" /\ StillOpening(o) /\ phone.current # NoCard
    /\ opening' = opening \ {o}
    /\ phone' = IF ~ok THEN [phone EXCEPT !.pending = FALSE]
                ELSE IF phone.pending
                THEN [phone EXCEPT !.ready = TRUE, !.pending = FALSE,
                                   !.sounding = phone.engine, !.playing = TRUE]
                ELSE [phone EXCEPT !.ready = TRUE]
    /\ UNCHANGED <<trashing, JobVars, thumb>>

(* onEnded.                                                                *)
SongEnds ==
    /\ phone.sounding # NoEngine
    /\ phone' = [phone EXCEPT !.sounding = NoEngine, !.playing = FALSE]
    /\ UNCHANGED <<opening, trashing, JobVars, thumb>>

SwipeDelete(t) ==
    /\ Taps("delete") /\ Tapped /\ t \notin trashing
    /\ trashing' = trashing \cup {t}
    /\ UNCHANGED <<phone, opening, JobVars>>

DeleteLands(t) ==
    /\ t \in trashing /\ trashing' = trashing \ {t}
    /\ phone' = IF phone.current # t THEN phone
                ELSE [(IF phone.engine = NoEngine THEN phone ELSE WithoutEngine(phone))
                      EXCEPT !.current = NoCard, !.playing = FALSE]
    /\ UNCHANGED <<opening, JobVars, thumb>>

----------------------------------------------------------------------------
(* The extraction.                                                         *)

PlayerVars == <<phone, opening, trashing>>

StartExtraction(split) ==
    /\ Taps("extract") /\ Tapped
    /\ job' = [job EXCEPT !.card = [shown |-> TRUE, id |-> 0, split |-> split], !.posts = @ + 1]
    /\ UNCHANGED <<PlayerVars, follow>>

PostRefused ==
    /\ job.posts > 0
    /\ job' = [job EXCEPT !.posts = @ - 1, !.card = NoJobCard]
    /\ UNCHANGED <<PlayerVars, follow, thumb>>

(* followExtraction(): what watched the last one is closed.  With no card  *)
(* left to write on, the handler stops and nothing follows the job.        *)
PostAccepted ==
    /\ job.posts > 0
    /\ LET id == job.made + 1
       IN /\ job' = [job EXCEPT !.posts = @ - 1, !.made = id,
                        !.card.id = IF job.card.shown THEN id ELSE @]
          /\ follow' = IF job.card.shown THEN [by |-> "stream", job |-> id] ELSE follow
    /\ UNCHANGED <<PlayerVars, thumb>>

(* _onExtractState() of a job that has ended, and _finishExtractJob().     *)
Ended(id) ==
    IF job.card.split THEN [job EXCEPT !.ended = @ \cup {id}, !.splits = @ \cup {id}]
    ELSE [job EXCEPT !.ended = @ \cup {id}, !.closing = @ \cup {id}]

StreamTells(over) ==
    /\ follow.by = "stream"
    /\ LET mine == job.card.shown /\ job.card.id = follow.job
       IN /\ job' = IF over /\ mine THEN Ended(follow.job) ELSE job
          /\ follow' = IF over /\ mine THEN NoFollow ELSE follow
    /\ UNCHANGED <<PlayerVars, thumb>>

StreamBreaks ==
    /\ follow.by = "stream"
    /\ follow' = [follow EXCEPT !.by = "poll"]
    /\ UNCHANGED <<PlayerVars, job, thumb>>

(* One ask each 2.5 s, whether or not the last one was answered.           *)
PollAsks ==
    /\ follow.by = "poll"
    /\ job' = [job EXCEPT !.asks = @ \cup {follow.job}]
    /\ UNCHANGED <<PlayerVars, follow, thumb>>

(* more: the answer to another ask is still on its way.                    *)
PollAnswers(id, over) ==
    /\ id \in job.asks
    /\ LET mine == job.card.shown /\ job.card.id = id
       IN /\ \E more \in BOOLEAN :
                LET next == IF over /\ mine THEN Ended(id) ELSE job
                IN job' = IF more THEN next ELSE [next EXCEPT !.asks = @ \ {id}]
          /\ follow' = IF over /\ mine /\ follow.by = "poll" THEN NoFollow ELSE follow
    /\ UNCHANGED <<PlayerVars, thumb>>

(* The vocal split asked for after the extraction, done or refused.        *)
SplitAnswers(id) ==
    /\ id \in job.splits
    /\ job' = [job EXCEPT !.splits = @ \ {id}, !.closing = @ \cup {id}]
    /\ UNCHANGED <<PlayerVars, follow, thumb>>

CardCloses(id) ==
    /\ id \in job.closing
    /\ job' = [job EXCEPT !.closing = @ \ {id},
                  !.card = IF job.card.shown /\ job.card.id = id THEN NoJobCard ELSE @]
    /\ UNCHANGED <<PlayerVars, follow, thumb>>

PhoneNext ==
    \/ \E t \in Cards : OpenCard(t) \/ StepTo(t) \/ SwipeDelete(t) \/ DeleteLands(t)
    \/ TapPlay \/ SongEnds
    \/ \E o \in opening : \/ OpeningEnds(o) \/ DetailFails(o) \/ DetailAnswers(o)
                          \/ \E ok \in BOOLEAN : EngineIsReady(o, ok)
    \/ \E split \in BOOLEAN : StartExtraction(split)
    \/ PostRefused \/ PostAccepted \/ StreamBreaks \/ PollAsks
    \/ \E over \in BOOLEAN : StreamTells(over) \/ \E id \in job.asks : PollAnswers(id, over)
    \/ \E id \in job.splits : SplitAnswers(id)
    \/ \E id \in job.closing : CardCloses(id)

PhoneSpec == PhoneInit /\ [][PhoneNext]_phoneVars

----------------------------------------------------------------------------
(* What is expected.                                                       *)

PhoneTypeOK ==
    /\ phone.current \in Cards \cup {NoCard} /\ phone.of \in Cards \cup {NoCard}
    /\ phone.engine \in 0..phone.token /\ phone.sounding \in 0..phone.token
    /\ \A o \in opening : o.stage \in {"detail", "engine"} /\ o.token <= phone.token
    /\ follow.by \in {"none", "stream", "poll"} /\ follow.job \in 0..job.made

(* One engine lives, the page's, and it is the selected track's.           *)
EngineIsTheTracks ==
    /\ phone.alive = {phone.engine} \ {NoEngine}
    /\ phone.engine # NoEngine => phone.of = phone.current

(* The play button says whether music is heard.                            *)
ButtonIsTrue == phone.playing <=> phone.sounding # NoEngine

(* The phone plays the track on screen and nothing else, whichever load or *)
(* delete answers last (openTrack, deleteTrack).                           *)
PhonePlaysItsTrack == EngineIsTheTracks /\ ButtonIsTrue /\ phone.sounding \in phone.alive \cup {NoEngine}

(* One extraction is watched, the one on the card, and no longer once its  *)
(* end was seen (followExtraction).                                        *)
FollowsItsCard ==
    follow.by # "none" =>
        /\ follow.job \notin job.ended
        /\ job.card.id \in {0, follow.job}

(* The phone plays and follows what its screen says.                       *)
PhoneIsTrue == PhonePlaysItsTrack /\ FollowsItsCard
=============================================================================
