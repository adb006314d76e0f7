------------------------------ MODULE Services ------------------------------
(***************************************************************************)
(* The stream of property lists, the clients of services, the installer    *)
(* server, ideviceinstaller and the trees of libplist in one specification.*)
(* They share no state: each begins as its module says, and one of them,   *)
(* active, runs while the others stay as they are.                         *)
(***************************************************************************)
EXTENDS InstallerCommands, Sequences

CONSTANTS
    Active,                                             \* which of them may run
    HeaderLen, Lengths, Limit, WordSize,                \* PlistService
    MaxMessages, MaxSends, MaxStalls,
    Caller, MaxNotifiers, MaxNotes, MaxCalls,           \* NotificationProxy
    User, MaxRequests, MaxParts, MaxSilences,           \* InstallationProxy
    MaxChars, MaxWorkers, MaxStale,                     \* SyslogRelay
    Task, MaxPackets, MaxLapses,                        \* Afc, and MobileSync
    MaxSessions, MaxTalk,                               \* MobileSync
    MaxTries, MaxReplies, MaxPauses,                    \* DebugServer
    Uploader, MaxUploads, MaxSize, MaxGivenUp,          \* ImageMounter
    Asker, MaxAsked, MaxUnheard,                        \* RequestServices
    Command, MaxClients, MaxCommands, MaxCareless,      \* InstallerServer
    Patience, NotePatience, ArchiveSize,                \* IdeviceInstaller
    MaxProgress, OthersInstall,
    MaxNodes, Key,                                      \* PlistTree
    Base, Fill, Documents                               \* BinaryPlist

VARIABLES
    active,
    ssl, lens, sent, wire, ended, fd, stalls, pc, total, buf, pktlen, curlen, parsed,
    results, delivered, asks, out, oks,
    np, npCaller, notifiers, proxy, told,
    ip, ipUser, updaters, requests, installd,
    sr, srPc, workers, logger, captured,
    afc, task, afcd, outcome,
    sync, syncd,
    ds, gdb, taken,
    mim, caller, mounter,
    rs, rsUser, asked, responder,
    pmas, conns, acceptors, loops, commands,
    tool, flags, updater, device,
    heap, undefined,
    tree, file, writer, result, phase

Plist == INSTANCE PlistService
Notification == INSTANCE NotificationProxy
Installation == INSTANCE InstallationProxy
Syslog == INSTANCE SyslogRelay
Files == INSTANCE Afc
Sync == INSTANCE MobileSync
Debug == INSTANCE DebugServer
Mounter == INSTANCE ImageMounter WITH User <- Uploader, MaxCalls <- MaxUploads,
                                      MaxSilences <- MaxGivenUp
Answers == INSTANCE RequestServices WITH User <- Asker, MaxRequests <- MaxAsked,
                                         MaxSilences <- MaxUnheard
Server == INSTANCE InstallerServer
Installer == INSTANCE IdeviceInstaller
Tree == INSTANCE PlistTree
Binary == INSTANCE BinaryPlist

Component == {"plist", "np", "ip", "sr", "afc", "sync", "debug", "mounter", "answers",
              "server", "commands", "installer", "tree", "binary"}

ComponentsAssumption ==
    /\ Active \subseteq Component
    /\ Plist!PlistAssumption
    /\ Notification!NotificationAssumption /\ Installation!InstallationAssumption
    /\ Syslog!SyslogAssumption /\ Files!AfcAssumption /\ Sync!SyncAssumption
    /\ Debug!DebugAssumption /\ Mounter!MounterAssumption /\ Answers!RequestsAssumption
    /\ Server!InstallerAssumption
    /\ Installer!ToolAssumption /\ Tree!TreeAssumption
    /\ Binary!BinaryAssumption

ASSUME ComponentsAssumption

plistVars == <<ssl, lens, sent, wire, ended, fd, stalls, pc, total, buf, pktlen, curlen,
               parsed, results, delivered, asks, out, oks>>
npVars == <<np, npCaller, notifiers, proxy, told>>
ipVars == <<ip, ipUser, updaters, requests, installd>>
srVars == <<sr, srPc, workers, logger, captured>>
afcVars == <<afc, task, afcd, outcome>>
syncVars == <<sync, syncd>>
debugVars == <<ds, gdb, taken>>
mounterVars == <<mim, caller, mounter>>
answersVars == <<rs, rsUser, asked, responder>>
serverVars == <<pmas, conns, acceptors, loops, commands>>
installerVars == <<tool, flags, updater, device>>
treeVars == <<heap, undefined>>
binaryVars == <<tree, file, writer, result, phase>>

all == <<active, plistVars, npVars, ipVars, srVars, afcVars, syncVars, debugVars,
         mounterVars, answersVars, serverVars, vars, installerVars, treeVars, binaryVars>>

\* Those that do not run begin in one of their initial states.
ServicesInit ==
    /\ active \in Active
    /\ Plist!Init /\ Notification!Init /\ Installation!Init /\ Syslog!Init /\ Files!Init
    /\ Sync!Init /\ Debug!Init /\ Mounter!Init /\ Answers!Init /\ Server!Init /\ Init
    /\ Installer!Init /\ Tree!Init /\ Binary!Init
    /\ active # "plist" => ssl /\ \A m \in DOMAIN lens, n \in Lengths : lens[m] <= n
    /\ active # "sr" => sr.ssl
    /\ active # "afc" => afc.ssl /\ afc.mode = "none"
    /\ active # "sync" => syncd.stream[1].type = "VersionExchange"
    /\ active # "mounter" => mim.ssl
    /\ active # "answers" => rs.ssl /\ rs.service = "misagent"
    /\ active # "commands" => app = "none"
    /\ active # "installer" => tool.mode = "install"

Only(c) ==
    /\ active = c /\ UNCHANGED active
    /\ c # "plist" => UNCHANGED plistVars
    /\ c # "np" => UNCHANGED npVars
    /\ c # "ip" => UNCHANGED ipVars
    /\ c # "sr" => UNCHANGED srVars
    /\ c # "afc" => UNCHANGED afcVars
    /\ c # "sync" => UNCHANGED syncVars
    /\ c # "debug" => UNCHANGED debugVars
    /\ c # "mounter" => UNCHANGED mounterVars
    /\ c # "answers" => UNCHANGED answersVars
    /\ c # "server" => UNCHANGED serverVars
    /\ c # "commands" => UNCHANGED vars
    /\ c # "installer" => UNCHANGED installerVars
    /\ c # "tree" => UNCHANGED treeVars
    /\ c # "binary" => UNCHANGED binaryVars

PlistRuns(step) == Only("plist") /\ step

SrRuns(step) == Only("sr") /\ step

ServerRuns(step) == Only("server") /\ step

ServicesNext ==
    \/ PlistRuns(Plist!Next)
    \/ Only("np") /\ Notification!Next
    \/ Only("ip") /\ Installation!Next
    \/ SrRuns(Syslog!Next)
    \/ Only("afc") /\ Files!Next
    \/ Only("sync") /\ Sync!Next
    \/ Only("debug") /\ Debug!Next
    \/ Only("mounter") /\ Mounter!Next
    \/ Only("answers") /\ Answers!Next
    \/ ServerRuns(Server!Next)
    \/ Only("commands") /\ Next
    \/ Only("installer") /\ Installer!Next
    \/ Only("tree") /\ Tree!Next
    \/ Only("binary") /\ Binary!Next

ServicesSpec == ServicesInit /\ [][ServicesNext]_all

\* The fairness of PlistService, SyslogRelay and InstallerServer.
FairServicesSpec ==
    /\ ServicesSpec
    /\ WF_all(PlistRuns(Plist!Step)) /\ WF_all(SrRuns(Syslog!Steps))
    /\ WF_all(ServerRuns(Server!Threads))

-----------------------------------------------------------------------------
(* The properties, each of its component: the modules say what they mean.  *)

\* The variables of the component that runs have their types.
TypesOK ==
    CASE active = "plist" -> Plist!TypeOK
      [] active = "np" -> Notification!TypeOK
      [] active = "ip" -> Installation!TypeOK
      [] active = "sr" -> Syslog!TypeOK
      [] active = "afc" -> Files!TypeOK
      [] active = "sync" -> Sync!TypeOK
      [] active = "debug" -> Debug!TypeOK
      [] active = "mounter" -> Mounter!TypeOK
      [] active = "answers" -> Answers!TypeOK
      [] active = "server" -> Server!TypeOK
      [] active = "commands" -> TypeOK
      [] active = "installer" -> Installer!TypeOK
      [] active = "tree" -> Tree!TypeOK
      [] active = "binary" -> Binary!TypeOK

\* property_list_service.c is at the beginning of a message after a timeout.
InStep == Plist!InStep

\* property_list_service.c returns messages of the device, whole and in order.
WholeMessages == Plist!WholeMessages

\* property_list_service.c reports as sent what is with the device.
SentWhole == Plist!SentWhole

\* A receive of property_list_service.c on a connection without SSL returns.
ReceiveReturns == Plist!ReceiveReturns

\* np_notifier loses no notification and calls back in their order.
NotesReported == Notification!NotesReported

\* A callback that np_set_notify_callback replaced is not called any more.
CallbackCurrent == [][told' # told => told'[Len(told')].by = np.registered]_all

\* What installation_proxy.c reports as done was answered to its end, and done if it is
\* an operation.
SuccessIsComplete == Installation!SuccessIsComplete

\* syslog_relay_worker calls back with the whole log in its order.
LogWhole == Syslog!LogWhole

\* syslog_relay_stop_capture returns on a connection without SSL.
StopReturns == Syslog!StopReturns

\* afc_receive_data takes no other request's answer for that of its own.
AnswerIsOwn == Files!AnswerIsOwn

\* The two ends of mobilesync.c agree on who sends changes.
DirectionAgreed == Sync!DirectionAgreed

\* debugserver.c returns the device's responses, each once and in their order.
PacketsInOrder == Debug!PacketsInOrder

\* An upload that mobile_image_mounter.c reports as a success is with the device, whole.
ImageWhole == Mounter!ImageWhole

\* What the clients of one request and one answer report is what the device did.
DoneAsSaid == Answers!DoneAsSaid

\* A careful client of the installer server gets its own answers, whole.
AnsweredInWhole == Server!AnsweredInWhole

\* A client of the installer server that has gone makes room for the next.
ServerListens == Server!ServerListens

\* ideviceinstaller removes an archive from the device when it has the whole of it.
ArchiveKept == Installer!ArchiveKept

\* The lists of libcnary are sound after any operation of libplist.
ListsSound == Tree!ListsSound

\* plist_from_bin reads the tree that plist_to_bin or the device wrote.
ReadsBack == Binary!ReadsBack
=============================================================================
