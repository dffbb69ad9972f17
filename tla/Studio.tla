--------------------------------- MODULE Studio ---------------------------------
(***************************************************************************)
(* The parts of the studio: the transport over its engines, the routing of *)
(* lanes, the player's session, the mixer, the editors of the beat grid    *)
(* and of the sections, the lyrics and the timing of their lines.  Their   *)
(* models share no state.                                                  *)
(***************************************************************************)
EXTENDS StudioTransport, PitchRouting, PlayerSession, MixerDesk, BeatGrid, TimelineSections,
        LyricsPanel, LyricsTiming

StudioSpec ==
    /\ TransportSpec /\ RoutingSpec /\ PlayerSpec /\ DeskSpec /\ GridSpec /\ SectionsSpec
    /\ LyricsSpec /\ TimingSpec

(* The states of every part are of their types.                            *)
StudioTypesOK ==
    RoutingTypeOK /\ PlayerTypeOK /\ DeskTypeOK /\ GridTypeOK /\ SectionsTypeOK /\ LyricsTypeOK

(* What the editors of the beat grid, the sections and the lines of the    *)
(* lyrics show and keep stays in order, and no two sections added overlap. *)
EditorsHold == GridIsInOrder /\ AddedSectionsStayApart /\ LyricsKeepTime
=============================================================================
