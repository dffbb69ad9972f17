------------------------------- MODULE MCPage -------------------------------
(* Instances of PageStudio for TLC.  Jobs a and b are of one source, c is  *)
(* of another; every scene is about one matter, so that each stays small.  *)
EXTENDS PageStudio
CONSTANTS a, b, c, F, G

MCSourceOf == [id \in Ids |-> IF id = c THEN "video" ELSE "song"]

(* A scene and its bounds: gestures, lost or refused requests, reloads.    *)
Play(does, bounds, ids, kept, lost, fresh) ==
    [does |-> does, ids |-> ids, kept |-> kept, lost |-> lost, fresh |-> fresh,
     bounds |-> [gestures |-> bounds[1], losses |-> bounds[2], reloads |-> bounds[3]]]

BinScenes ==
    {Play({"trash", "clear", "sync"}, <<3, 1, 1>>, {}, {a, c}, {}, {}),
     Play({"trash", "clear", "sync"}, <<4, 1, 1>>, {}, {}, {}, {a})}

FolderScenes ==
    {Play({"folders", "trash", "sync"}, <<4, 0, 0>>, {}, {a}, {}, {}),
     Play({"playlist", "trash", "sync"}, <<3, 0, 0>>, {b}, {a}, {}, {})}

HeartScenes == {Play({"heart", "sync"}, <<3, 1, 1>>, {}, {a}, {}, {c})}

(* One song imported twice, the copy thrown away while it runs.            *)
CopyScenes == {Play({"form", "trash", "stream", "sync"}, <<2, 0, 0>>, {b}, {a}, {}, {})}

ImportScenes ==
    {Play({"form", "click", "stream"}, <<3, 0, 0>>, {a}, {c}, {}, {}),
     Play({"form", "trash", "extract", "sync"}, <<4, 1, 0>>, {a}, {}, {}, {}),
     Play({"form", "cancel", "click", "stream", "refresh"}, <<3, 0, 0>>, {a}, {}, {}, {}),
     Play({"click", "trash", "clear", "cancel", "form", "stream"}, <<4, 0, 0>>, {a}, {}, {}, {})}

RestoreScenes ==
    {Play({"click", "again"}, <<3, 1, 0>>, {b}, {a, c}, {a}, {}),
     Play({"click", "trash", "clear"}, <<3, 0, 0>>, {b}, {a}, {a}, {})}

AllScenes ==
    BinScenes \cup FolderScenes \cup HeartScenes \cup CopyScenes \cup ImportScenes \cup RestoreScenes
=============================================================================
