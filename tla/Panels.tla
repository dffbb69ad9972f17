--------------------------------- MODULE Panels ---------------------------------
(***************************************************************************)
(* The panels of the page that stand alone: the phone's player, the artist *)
(* box, the notification centre, the import form, the export menu, the     *)
(* Settings window and the queue view.  They share no state.               *)
(***************************************************************************)
EXTENDS PhonePlayer, ArtistBox, Notices, ExtractForm, ExportDesk, SettingsDialog, QueueView

PanelsSpec ==
    /\ PhoneSpec /\ ArtistSpec /\ NoticesSpec /\ FormSpec /\ ExportSpec /\ SettingsSpec
    /\ QueueViewSpec

(* The states of every panel are of their types.                           *)
PanelTypesOK == PhoneTypeOK /\ ArtistTypeOK /\ NoticesTypeOK /\ FormTypeOK /\ ExportTypeOK

(* What the notices, the import form, the export menu, the settings and    *)
(* the queue view show is what failed, is selected, running, kept, waiting.*)
ShownIsTrue ==
    OneFailureOneCard /\ FormIsTrue /\ ExportIsTrue /\ SettingsSayWhatIsKept /\ QueueRowsAreTheQueue
=============================================================================
