----------------------------- MODULE SettingsDialog -----------------------------
(***************************************************************************)
(* The Settings window: its parts read the server's settings as it opens,  *)
(* each change is posted on its own, and every answer says what the server *)
(* kept.  Answers come in any order, some never; the window may be closed  *)
(* or built again meanwhile.                                               *)
(***************************************************************************)
EXTENDS Integers, FiniteSets

CONSTANT SettingsScenes  \* set of scenes: what the user does

VARIABLES
    dialog,   \* the window on screen, part by part
    settings, \* what the server keeps, and how often each part of it changed
    calls,    \* requests on their way, or their answers
    settingsLeft \* the scene, and what is left of its gestures

settingsVars == <<dialog, settings, calls, settingsLeft>>

(* minutes: max track length, one of the numbers the server clamps; device *)
(* may be refused; days is typed, and counts while deletes is on.          *)
Fields == {"minutes", "device", "deletes", "days"}
Most == [minutes |-> 1, device |-> 1, deletes |-> 1, days |-> 2]
Parts == {"general", "secret", "network", "stems"}
Unset == [f \in Fields |-> 0]
NotTold == -1

(* asks: the parts of the window looked at.                                *)
SettingsScene(acts, asks, gestures) == [acts |-> acts, asks |-> asks, gestures |-> gestures]

ASSUME SettingsAssumption ==
    SettingsScenes \subseteq
        [acts : SUBSET {"open", "general", "days", "network", "secret", "stems"},
         asks : SUBSET Parts, gestures : Nat]

(* shown: what each part says.  told: the change of the server's it was    *)
(* last told of.  wired: the fields listen.  typing: a number of days is   *)
(* being typed.  unsaid: fields whose post failed without a word.  busy:   *)
(* parts whose buttons wait.  key: the secret typed.                       *)
NewDialog(gen) ==
    [open |-> TRUE, gen |-> gen, wired |-> {}, general |-> Unset, secret |-> 0, network |-> 0,
     stems |-> 0, told |-> [p \in Parts |-> NotTold], typing |-> FALSE, confirmed |-> 0,
     unsaid |-> {}, busy |-> {}, key |-> 0, says |-> ""]

SettingsInit ==
    /\ settingsLeft \in SettingsScenes
    /\ dialog = [NewDialog(0) EXCEPT !.open = FALSE]
    /\ settings = [general |-> [Unset EXCEPT !["deletes"] = 1], secret |-> 0, network |-> 0, stems |-> 0,
                   version |-> [p \in Parts |-> 0]]
    /\ calls = {}

Chooses(what) == what \in settingsLeft.acts /\ settingsLeft.gestures > 0
Chose == settingsLeft' = [settingsLeft EXCEPT !.gestures = @ - 1]

Call(part, kind, field, value) ==
    [gen |-> dialog.gen, n |-> settingsLeft.gestures, part |-> part, kind |-> kind, field |-> field,
     value |-> value, answer |-> "none", kept |-> Unset, version |-> NotTold]
Sends(part, field, value) == calls' = calls \cup {Call(part, "post", field, value)}

----------------------------------------------------------------------------
(* The window.                                                             *)

(* Opened, or built again for another language: every part asks.           *)
OpenLibraryEditor ==
    /\ Chooses("open") /\ Chose
    /\ dialog' = NewDialog(dialog.gen + 1)
    /\ calls' = calls \cup {[Call(p, "get", "", 0) EXCEPT !.gen = dialog.gen + 1] : p \in settingsLeft.asks}
    /\ UNCHANGED settings

CloseLibraryEditor ==
    /\ Chooses("open") /\ Chose /\ dialog.open
    /\ dialog' = [dialog EXCEPT !.open = FALSE]
    /\ UNCHANGED <<settings, calls>>

----------------------------------------------------------------------------
(* What the user does in it.                                               *)

(* A field chosen or committed.  Before the settings are read nothing      *)
(* listens; a number of days being typed is committed first.               *)
Change(f, v) ==
    /\ Chooses("general") /\ Chose /\ dialog.open
    /\ f # "days" /\ v \in 0..2 /\ v # dialog.general[f] /\ ~dialog.typing
    /\ f = "deletes" => v \in 0..1
    /\ dialog' = [dialog EXCEPT !.general[f] = v]
    /\ IF "general" \in dialog.wired THEN Sends("general", f, v) ELSE UNCHANGED calls
    /\ UNCHANGED settings

TypeDays(v) ==
    /\ Chooses("days") /\ Chose /\ dialog.open
    /\ "general" \in dialog.wired /\ dialog.general["deletes"] = 1 /\ v # dialog.general["days"]
    /\ dialog' = [dialog EXCEPT !.general["days"] = v, !.typing = TRUE]
    /\ UNCHANGED <<settings, calls>>

CommitDays ==
    /\ dialog.open /\ dialog.typing
    /\ dialog' = [dialog EXCEPT !.typing = FALSE]
    /\ Sends("general", "days", dialog.general["days"])
    /\ UNCHANGED <<settings, settingsLeft>>

ToggleNetwork ==
    /\ Chooses("network") /\ Chose
    /\ dialog.open /\ "network" \in dialog.wired /\ "network" \notin dialog.busy
    /\ dialog' = [dialog EXCEPT !.network = 1 - @, !.busy = @ \cup {"network"}]
    /\ Sends("network", "", 1 - dialog.network)
    /\ UNCHANGED settings

(* A key pasted and sent: by its button, which waits for the answer, or by *)
(* Enter, which does not.                                                  *)
SendSecret(v) ==
    /\ Chooses("secret") /\ Chose /\ dialog.open
    /\ dialog' = [dialog EXCEPT !.key = v, !.busy = @ \cup {"secret"}]
    /\ Sends("secret", "", v)
    /\ UNCHANGED settings

ClearSecret ==
    /\ Chooses("secret") /\ Chose
    /\ dialog.open /\ dialog.secret # 0 /\ "secret" \notin dialog.busy
    /\ dialog' = [dialog EXCEPT !.busy = @ \cup {"secret"}]
    /\ Sends("secret", "", 0)
    /\ UNCHANGED settings

MoveStems(v) ==
    /\ Chooses("stems") /\ Chose
    /\ dialog.open /\ "stems" \in dialog.wired /\ "stems" \notin dialog.busy
    /\ dialog' = [dialog EXCEPT !.busy = @ \cup {"stems"}, !.says = "moving"]
    /\ Sends("stems", "", v)
    /\ UNCHANGED settings

----------------------------------------------------------------------------
(* The server.                                                             *)

ServerClamp(f, v) == IF v > Most[f] THEN Most[f] ELSE v

(* What a post makes of a part, and what may be refused: a device this     *)
(* machine lacks, a key the service does not know, a folder in use.        *)
Refused(c) == c.kind = "post" /\ \/ c.part = "general" /\ c.field = "device" /\ c.value = 2
                                 \/ c.part \in {"secret", "stems"} /\ c.value = 2
KeptOf(c) ==
    IF c.kind = "get" \/ Refused(c) THEN settings[c.part]
    ELSE IF c.part = "general" THEN [settings.general EXCEPT ![c.field] = ServerClamp(c.field, c.value)]
    ELSE c.value

(* A call reaches the server; its answer, or the call itself, may be lost. *)
ServerTakes(c, lost) ==
    /\ c.answer = "none"
    /\ LET kept == KeptOf(c)
           version == settings.version[c.part] + (IF c.kind = "get" \/ Refused(c) THEN 0 ELSE 1)
       IN /\ settings' = [settings EXCEPT ![c.part] = kept, !.version[c.part] = version]
          /\ calls' = (calls \ {c}) \cup
                {[c EXCEPT !.answer = IF lost THEN "lost" ELSE IF Refused(c) THEN "refused" ELSE "ok",
                           !.kept = kept, !.version = version]}
    /\ UNCHANGED <<dialog, settingsLeft>>

NeverSent(c) ==
    /\ c.answer = "none"
    /\ calls' = (calls \ {c}) \cup {[c EXCEPT !.answer = "lost"]}
    /\ UNCHANGED <<dialog, settings, settingsLeft>>

----------------------------------------------------------------------------
(* An answer lands in the window that asked, on screen or not.             *)

(* apply(): every field says what was kept, but for days being typed.      *)
Applied(d, c) ==
    [d EXCEPT !.general = [f \in Fields |-> IF f = "days" /\ d.typing THEN d.general[f] ELSE c.kept[f]],
              !.confirmed = c.kept["device"], !.unsaid = {}, !.told["general"] = c.version]

(* A post that came to nothing: a device is put back, others say nothing.  *)
NotChanged(d, c) ==
    IF c.field = "device" THEN [d EXCEPT !.general["device"] = d.confirmed]
    ELSE [d EXCEPT !.unsaid = @ \cup {c.field}]

(* The days it posted are written back, typed or not.                      *)
GeneralAnswer(d, c) ==
    IF c.kind = "get" THEN [(IF c.answer = "ok" THEN Applied(d, c) ELSE d) EXCEPT !.wired = @ \cup {"general"}]
    ELSE IF c.answer # "ok" THEN NotChanged(d, c)
    ELSE IF c.field = "days" THEN [Applied(d, c) EXCEPT !.general["days"] = c.kept["days"], !.typing = FALSE]
    ELSE Applied(d, c)

SecretAnswer(d, c) ==
    [d EXCEPT !.secret = IF c.answer = "ok" THEN c.kept ELSE @,
              !.told["secret"] = IF c.answer = "ok" THEN c.version ELSE @,
              !.key = IF c.kind = "post" /\ c.answer = "ok" THEN 0 ELSE @,
              !.busy = IF c.kind = "post" THEN @ \ {"secret"} ELSE @]

NetworkAnswer(d, c) ==
    IF c.kind = "get"
    THEN [d EXCEPT !.network = IF c.answer = "ok" THEN c.kept ELSE 0, !.wired = @ \cup {"network"},
                   !.told["network"] = IF c.answer = "ok" THEN c.version ELSE @]
    ELSE [d EXCEPT !.network = IF c.answer = "ok" THEN c.kept ELSE 1 - c.value,
                   !.told["network"] = IF c.answer = "ok" THEN c.version ELSE @,
                   !.busy = @ \ {"network"}]

(* A move that is told is followed by another look; one that is not says   *)
(* the server was out of reach.  Without an answer at first there is no row. *)
StemsAnswer(d, c) ==
    IF c.kind = "get"
    THEN IF c.answer # "ok" THEN d
         ELSE [d EXCEPT !.stems = c.kept, !.told["stems"] = c.version, !.wired = @ \cup {"stems"}]
    ELSE [d EXCEPT !.stems = IF c.answer = "ok" THEN c.kept ELSE @,
                   !.told["stems"] = IF c.answer = "ok" THEN c.version ELSE @,
                   !.says = CASE c.answer = "ok" -> "moved" [] c.answer = "refused" -> "failed"
                              [] OTHER -> "unreachable",
                   !.busy = @ \ {"stems"}]

AnswerLands(c) ==
    /\ c.answer # "none" /\ calls' = calls \ {c}
    /\ dialog' = IF c.gen # dialog.gen \/ ~dialog.open THEN dialog
                 ELSE CASE c.part = "general" -> GeneralAnswer(dialog, c)
                        [] c.part = "secret" -> SecretAnswer(dialog, c)
                        [] c.part = "network" -> NetworkAnswer(dialog, c)
                        [] c.part = "stems" -> StemsAnswer(dialog, c)
    /\ UNCHANGED <<settings, settingsLeft>>

SettingsNext ==
    \/ OpenLibraryEditor \/ CloseLibraryEditor \/ CommitDays \/ ToggleNetwork \/ ClearSecret
    \/ \E f \in Fields, v \in 0..2 : Change(f, v)
    \/ \E v \in 0..2 : TypeDays(v)
    \/ \E v \in 1..2 : SendSecret(v) \/ MoveStems(v)
    \/ \E c \in calls : NeverSent(c) \/ AnswerLands(c) \/ \E lost \in BOOLEAN : ServerTakes(c, lost)

SettingsSpec == SettingsInit /\ [][SettingsNext]_settingsVars

----------------------------------------------------------------------------
(* What is expected.                                                       *)

(* A part that was told of the server's latest change, with no call of its *)
(* own under way, says what the server keeps: after a clamp, a refusal, a  *)
(* failure, or answers that overtook one another.  A post that failed      *)
(* without a word, and days being typed, are the exceptions.               *)
SettingsSayWhatIsKept ==
    dialog.open => \A p \in Parts :
        dialog.told[p] = settings.version[p] /\ (\A c \in calls : c.part # p \/ c.gen # dialog.gen) =>
            IF p = "general"
            THEN \A f \in Fields \ dialog.unsaid :
                    (f = "days" /\ dialog.typing) \/ dialog.general[f] = settings.general[f]
            ELSE dialog[p] = settings[p]
=============================================================================
