-------------------------------- MODULE MCParts --------------------------------
(***************************************************************************)
(* Instances for TLC of the parts that stand alone: the page's panels, the *)
(* shell's dialogs, and the server's streams, separations and lyric runs.  *)
(* One of them moves in a behaviour, as in MCStudio.                       *)
(***************************************************************************)
EXTENDS Panels, Shell, LibraryRepair, JobStream, GpuWork

CONSTANTS a, b, c, vocals, drums      \* tracks or jobs, and stems
VARIABLE part

OneOf(S) == CHOOSE s \in S : TRUE

(* The notices' filter and sort are the library's, on short lists.         *)
MCLists == UNION {[1..n -> [at : 1..3]] : n \in 0..3}
ASSUME ListsAreTheLibrarys ==
    \A list \in MCLists :
        /\ NewestFirst(list) = SortSeq(list, LAMBDA r, s : r.at > s.at)
        /\ Kept(list, {i \in DOMAIN list : list[i].at # 2}) = SelectSeq(list, LAMBDA r : r.at # 2)

----------------------------------------------------------------------------
(* The scenes: what each of them brings about is said in README.md.        *)

MCPhoneScenes == {PhoneScene({"open", "step", "play", "delete"}, 6), PhoneScene({"extract"}, 3)}

MCTagsOf(x, y) == [r \in Records |-> IF r = a THEN x ELSE y]
MCArtistScenes ==
    {ArtistScene({"open", "box"}, 5, MCTagsOf("unread", y), {b}) : y \in {"named", "plain", "unread"}}
    \cup {ArtistScene({"open", "box", "type", "save", "pick"}, 4, MCTagsOf("named", "plain"), {b}),
          ArtistScene({"open", "box", "language"}, 4, MCTagsOf("unread", "named"), {})}

MCFormScenes ==
    {FormScene({"chip", "all", "vocals", "open", "submit", "file", "clear"}, 4, {drums}, "split", FALSE),
     FormScene({"flag", "open", "submit", "restore", "native", "file"}, 3, {vocals, drums}, "all", TRUE)}

MCExportScenes ==
    {ExportScene({"export", "panel", "late", "format", "load"}, 7, TRUE),
     ExportScene({"panel", "export", "format", "loop", "load", "mix", "click"}, 4, FALSE),
     ExportScene({"loop", "mix", "drag", "lane", "load"}, 4, TRUE)}

MCSettingsScenes ==
    {SettingsScene({"open", "general", "days"}, {"general"}, 3),
     SettingsScene({"open", "network"}, {"network"}, 4),
     SettingsScene({"open", "stems"}, {"stems"}, 4), SettingsScene({"open", "secret"}, {"secret"}, 4)}

MCUpdateScenes ==
    {UpdateScene({"open", "reload"}, 4, TRUE, TRUE, FALSE),
     UpdateScene({"open", "reload", "dismiss"}, 4, FALSE, TRUE, FALSE),
     UpdateScene({"open", "dismiss", "reload"}, 4, TRUE, FALSE, TRUE)}

MCQueueScenes ==
    {QueueScene({"open", "drag"}, 2, <<a, b, c>>, FALSE), QueueScene({"open", "top"}, 2, <<a, b, c>>, FALSE),
     QueueScene({"open", "drag", "cancel"}, 3, <<a, b>>, FALSE),
     QueueScene({"open", "start", "cancel"}, 3, <<a, b>>, TRUE)}

MCRepairScenes ==
    {RepairScene({"open", "resync", "slow"}, 4, {a, b, c}), RepairScene({"open", "resync", "purge"}, 4, {a, b})}

MCSetupScenes ==
    {SetupScene(p, x, f, t) : p \in {"none", "old", "new"}, x \in {"none", "whole", "torn"},
                              f \in BOOLEAN, t \in {"open", "settled"}}

(* The _set() calls of a job that ends well, and of one that fails.        *)
MCSeparating == << <<"status", "separating">>, <<"stage", "Separating stems">> >>
MCJobRuns ==
    {<<MCSeparating, << <<"stage", "50%">> >>, << <<"status", "done">>, <<"stage", "Done">> >> >>,
     <<MCSeparating, << <<"status", "error">>, <<"stage", "Error">>, <<"error", "text">> >> >>}
(* What their fields may hold.                                             *)
MCTexts == {"", "queued", "Queued", "separating", "Separating stems", "50%", "done", "Done", "error",
            "Error", "text"}

----------------------------------------------------------------------------
(* One part moves.                                                         *)

MCInit ==
    /\ part \in {"phone", "artist", "notices", "form", "export", "settings", "update", "queue",
                 "repair", "setup", "stream", "demucs", "lyrics"}
    /\ PhoneInit /\ (part = "phone" \/ thumb = OneOf(MCPhoneScenes))
    /\ ArtistInit /\ (part = "artist" \/ act = OneOf(MCArtistScenes))
    /\ NoticesInit
    /\ FormInit /\ (part = "form" \/ doing = OneOf(MCFormScenes))
    /\ ExportInit /\ (part = "export" \/ (use = OneOf(MCExportScenes) /\ open = OneOf(Songs)))
    /\ SettingsInit /\ (part = "settings" \/ settingsLeft = OneOf(MCSettingsScenes))
    /\ UpdateInit /\ (part = "update" \/ updateScene = OneOf(MCUpdateScenes))
    /\ QueueViewInit /\ (part = "queue" \/ queueLeft = OneOf(MCQueueScenes))
    /\ RepairInit /\ (part = "repair" \/ repairLeft = OneOf(MCRepairScenes))
    /\ SetupInit /\ (part = "setup" \/ install = OneOf(MCSetupScenes))
    /\ StreamInit /\ (part = "stream" \/ script = OneOf(MCJobRuns))
    /\ SepInit /\ LyricInit

Still(p, vars) == IF part = p THEN TRUE ELSE UNCHANGED vars
OthersStill ==
    /\ UNCHANGED part
    /\ Still("phone", phoneVars) /\ Still("artist", artistVars) /\ Still("notices", noticeVars)
    /\ Still("form", formVars) /\ Still("export", exportVars) /\ Still("settings", settingsVars)
    /\ Still("update", updateVars) /\ Still("queue", queueViewVars) /\ Still("repair", repairVars)
    /\ Still("setup", setupVars) /\ Still("stream", streamVars) /\ Still("demucs", sepVars)
    /\ Still("lyrics", lyricVars)

MCNext ==
    \/ part = "phone" /\ PhoneNext /\ OthersStill
    \/ part = "artist" /\ ArtistNext /\ OthersStill
    \/ part = "notices" /\ NoticesNext /\ OthersStill
    \/ part = "form" /\ FormNext /\ OthersStill
    \/ part = "export" /\ ExportNext /\ OthersStill
    \/ part = "settings" /\ SettingsNext /\ OthersStill
    \/ part = "update" /\ UpdateNext /\ OthersStill
    \/ part = "queue" /\ QueueViewNext /\ OthersStill
    \/ part = "repair" /\ RepairNext /\ OthersStill
    \/ part = "setup" /\ SetupNext /\ OthersStill
    \/ part = "stream" /\ StreamNext /\ OthersStill
    \/ part = "demucs" /\ SepNext /\ OthersStill
    \/ part = "lyrics" /\ LyricRunsNext /\ OthersStill

MCVars == <<part, phoneVars, artistVars, noticeVars, formVars, exportVars, settingsVars, updateVars,
            queueViewVars, repairVars, setupVars, streamVars, sepVars, lyricVars>>
MCSpec == MCInit /\ [][MCNext]_MCVars
=============================================================================
