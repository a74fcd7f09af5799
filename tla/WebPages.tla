------------------------------ MODULE WebPages ------------------------------
(***************************************************************************)
(* The pages that show and change data of a server: a visit is to one of   *)
(* them, of the kind that is chosen when it begins. Each kind has a module *)
(* of its own; the kinds share the calls in flight and what can become of  *)
(* them (PageVisit), and here the properties that all of them have.        *)
(***************************************************************************)
EXTENDS PageVisit

CONSTANTS
  Devices, Weddings,                    \* DevicePages
  Emails, Days, DefaultDays, AlbumLimit,\* EventPages
  Photos, Captions,                     \* CouplePages
  Settings,                             \* SmtpPage
  Passwords, Codes,                     \* PasswordPages
  Keys                                  \* BoothConsole

VARIABLE visit        \* the kind of page

D == INSTANCE DevicePages
E == INSTANCE EventPages
C == INSTANCE CouplePages
S == INSTANCE SmtpPage
P == INSTANCE PasswordPages
B == INSTANCE BoothConsole

ASSUME InputsAreNat == MaxInputs \in Nat
ASSUME PagesCall == Calls # {}
ASSUME NoneIsNothing ==
  None \notin Devices \cup Weddings \cup Photos \cup Settings \cup Codes \cup Keys
ASSUME CaptionsAreText == Captions # {} /\ "gone" \notin Captions
ASSUME PhotosAreNoPages == {"gallery", "upload"} \cap Photos = {}
ASSUME AlbumsAreTaken == AlbumLimit \in Nat \ {0}
ASSUME DaysAreNat == Days \subseteq Nat /\ DefaultDays \in Days \ {0}
ASSUME PasswordsHaveFeatures == Passwords \subseteq P!AllPasswords
ASSUME KeysAreGenerated == B!Elsewhere \notin Keys

Init ==
  \/ visit = "devices" /\ D!Init
  \/ visit = "events" /\ E!Init
  \/ visit = "couple" /\ C!Init
  \/ visit = "smtp" /\ S!Init
  \/ visit = "password" /\ P!Init
  \/ visit = "console" /\ B!Init

DeviceStep == visit = "devices" /\ D!Next /\ UNCHANGED visit
EventStep == visit = "events" /\ E!Next /\ UNCHANGED visit
CoupleStep == visit = "couple" /\ C!Next /\ UNCHANGED visit
SmtpStep == visit = "smtp" /\ S!Next /\ UNCHANGED visit
PasswordStep == visit = "password" /\ P!Next /\ UNCHANGED visit
ConsoleStep == visit = "console" /\ B!Next /\ UNCHANGED visit

Next ==
  DeviceStep \/ EventStep \/ CoupleStep \/ SmtpStep \/ PasswordStep \/ ConsoleStep

Spec == Init /\ [][Next]_<<visit, vars>>

-----------------------------------------------------------------------------
(* Every variable stays in the set of values the code can give it; of an    *)
(* event, that it has an album for the slideshow to open.                   *)
TypeOK ==
  CASE visit = "devices" -> D!TypeOK
    [] visit = "events" -> E!TypeOK
    [] visit = "couple" -> C!TypeOK
    [] visit = "smtp" -> S!TypeOK
    [] visit = "password" -> P!TypeOK
    [] visit = "console" -> B!TypeOK

(* What a page has at work is not sent a second time: one click is one      *)
(* device, one event, one caption, one save, one password.                  *)
OneAtATime ==
  CASE visit = "devices" -> D!OneProvisioning
    [] visit = "events" -> E!OneAtATime
    [] visit = "couple" -> C!OneAtATime
    [] visit = "smtp" -> S!OneAtATime
    [] visit = "password" -> P!OneAtATime
    [] OTHER -> TRUE

(* Once its calls are answered, a page that did one thing at a time, beside *)
(* nobody else, shows the data as they are.                                 *)
ShowsOwnWork ==
  CASE visit = "devices" -> D!ShowsOwnWork
    [] visit = "events" -> E!ShowsOwnWork
    [] visit = "couple" -> C!ShowsOwnWork
    [] visit = "smtp" -> S!ShowsOwnWork
    [] visit = "password" -> P!ShowsOwnWork
    [] visit = "console" -> B!ShowsOwnWork

(* A device that was deleted stays so, whatever heartbeat or assignment had *)
(* read its row before (DevicePages).                                       *)
DeletedStaysDeleted == visit = "devices" => D!DeletedStaysDeleted

(* An edit of something else sends the days its event has, or the default   *)
(* for an event of no days (EventPages).                                    *)
UntouchedDaysOrDefault == visit = "events" => E!UntouchedDaysOrDefault

(* Not so for an event of no days: an edit of something else sends the days *)
(* that its event has (EventPages).                                         *)
UntouchedDaysStay == visit = "events" => E!UntouchedDaysStay

(* The list of uploads tells what is stored, under way and to come          *)
(* (CouplePages).                                                           *)
UploadsAreTrue == visit = "couple" => C!UploadsAreTrue

(* Codes are asked for only by mail settings that were tested (SmtpPage).   *)
VerifiedIsTested == visit = "smtp" => S!VerifiedIsTested

(* For ASCII characters the pages check what the server checks; the meter   *)
(* calls good or strong what the server takes, and strong nothing that it   *)
(* refuses, except for a space (PasswordPages).                             *)
RulesAgree == visit = "password" => P!RulesAgree /\ P!MeterFollowsPolicy

(* Not so: what the meter calls solid for admin use, the server takes       *)
(* (PasswordPages).                                                         *)
SolidIsTaken == visit = "password" => P!SolidIsTaken

(* A key pair is offered for one registration (BoothConsole).               *)
KeyUsedOnce == visit = "console" => B!KeyUsedOnce

=============================================================================
