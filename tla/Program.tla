------------------------------ MODULE Program ------------------------------
(***************************************************************************)
(* One program, client or server, from its command line to its end: the    *)
(* config loaders, the environment, the interactive shells, and the        *)
(* daemon with its pidfile, signals and unit (config/, cli/shell.py,       *)
(* __main__.py and daemon.py of both packages, deploy/).                   *)
(*                                                                         *)
(* Fields of a config that are copied from place to place and never        *)
(* looked at (hosts, google_host, debug_timing, account labels) are left   *)
(* out; an entry that is missing from a file is the same as its default.   *)
(* A deployment id is the sequence of its parts between slashes.           *)
(***************************************************************************)
EXTENDS Integers, Sequences, SequencesExt, FiniteSets, FiniteSetsExt

CONSTANTS
    Setups,             \* [role, mode, supervised, pidfile_ok] of the programs
    Paths,              \* names of config files; the first is the default
    DefaultPath,
    Contents(_),        \* what the files of a role may hold at first
    Environments(_),    \* ASTRIX_* variables: records of the fields they set
    Answers(_),         \* what is typed into the setup wizard of a role
    Ports, Words, Sni, Ids, Proxies, TypedKeys,   \* what is typed elsewhere
    DeploymentIds,      \* "AKfycb...", long enough, without a blank
    HexKeys,            \* 64 hexadecimal digits
    SpacedKeys,         \* 64 characters fromhex takes, but not 32 bytes
    MaxEdits,           \* bound on what is changed and saved
    Text                \* the strings all these are made of

Empty == ""
Blank == " "

(* What the fields hold, whoever sets them.  A proxy without a host is     *)
(* none.                                                                   *)
NoProxy == [scheme |-> Empty, host |-> Empty]
Proxy   == {NoProxy} \cup [scheme : Text, host : Text \ {Empty}]

ClientConfig ==
    [port : Int, user : Text, pass : Text, sni : Seq(Text), keys : Seq(Seq(Text)),
     tunnel_key : Text, relay : Seq(Text), coalesce : Int, slots : Int]
ServerConfig ==
    [port : Int, tunnel_key : Text, proxy : Proxy, initial : Int]
Config(role) == IF role = "client" THEN ClientConfig ELSE ServerConfig

(* The fields that have a variable.                                        *)
EnvFields ==
    [port |-> Int, user |-> Text, pass |-> Text, sni |-> Seq(Text),
     keys |-> Seq(Seq(Text)), tunnel_key |-> Text, coalesce |-> Int, slots |-> Int,
     proxy |-> Proxy]

ASSUME ProgramAssumption ==
    /\ DefaultPath \in Paths /\ MaxEdits \in Nat
    /\ Setups \subseteq [role : {"client", "server"}, mode : {"shell", "headless", "daemon"},
                         supervised : BOOLEAN, pidfile_ok : BOOLEAN]
    /\ \A s \in Setups : s.supervised => s.mode = "daemon"
    /\ \A role \in {"client", "server"} :
          /\ Contents(role) \cup Answers(role) \subseteq Config(role)
          /\ \A e \in Environments(role) :
                /\ DOMAIN e \subseteq DOMAIN EnvFields \cup {"unparsable"}
                /\ \A f \in DOMAIN e \ {"unparsable"} : e[f] \in EnvFields[f]
    /\ {Empty, "www.google.com"} \subseteq Text
    /\ HexKeys \cup TypedKeys \cup Words \cup DeploymentIds \subseteq Text
    /\ HexKeys \cap SpacedKeys = {} /\ Empty \notin DeploymentIds
    /\ Ports \subseteq Int /\ Proxies \subseteq Proxy
    /\ Sni \subseteq Seq(Text) /\ Ids \subseteq Seq(Text)

VARIABLES
    how, env,       \* the program, its mode, its environment
    files, origin,  \* files; history: the config a file was saved from
    config, config_path,
    touched,        \* history: config is not what a file gave
    edits,          \* counts changes and saves
    stage,          \* where the program is
    saving,         \* the file open for writing
    running, listening,
    interrupts, cancelled,   \* Ctrl+C: how often; the task has yet to see it
    shutdown,       \* the daemon's _shutdown_event
    pidfile, other, \* whose pid it holds; another daemon of the same kind
    unit,           \* the systemd unit: "none", "up", "stopping"
    status          \* the exit status: "none", "ok", "error", "signal"

conf == <<config, config_path, touched, edits>>
disk == <<files, origin, saving>>
net  == <<running, listening>>
tty  == <<interrupts, cancelled>>
pid  == <<pidfile, other>>
fixed == <<how, env>>
vars == <<fixed, conf, disk, net, tty, pid, stage, shutdown, unit, status>>

Nothing == [missing |-> TRUE]
Torn    == [torn |-> TRUE]
File(d) == [json |-> d]
----------------------------------------------------------------------------
(* The loaders.                                                            *)
Strip(word) == IF word = Blank THEN Empty ELSE word

FilledParts(id) == {i \in DOMAIN id : id[i] # Empty}
WithoutTail(id) ==
    IF FilledParts(id) = {} THEN <<>> ELSE SubSeq(id, 1, Max(FilledParts(id)))
WithoutExec(id) ==
    IF Len(id) > 1 /\ Last(id) = "exec" THEN Front(id) ELSE id

_normalize_deployment_id(id) ==
    LET v      == WithoutExec(WithoutTail(id))
        filled == FilledParts(v)
        parts  == IF filled = {} THEN <<Empty>> ELSE SubSeq(v, Min(filled), Max(filled))
        at     == {i \in 1..(Len(parts) - 1) : parts[i] = "s"}
    IN  IF at = {} THEN <<Last(parts)>> ELSE <<parts[Min(at) + 1]>>

_validate_deployment_id(id) == id[1] \in DeploymentIds

(* Mutation: ids are compared as they are written.                         *)
_parse_script_keys_Raw(raw) ==
    FoldLeft(LAMBDA seen, id : IF id \in ToSet(seen) THEN seen
                               ELSE Append(seen, _normalize_deployment_id(id)), <<>>, raw)

(* The ids among the first i that differ.                                  *)
Noted(seen, id) == IF id \in ToSet(seen) THEN seen ELSE Append(seen, id)

_parse_script_keys(raw) ==
    LET seen[i \in 0..Len(raw)] ==
            IF i = 0 THEN <<>>
            ELSE Noted(seen[i - 1], _normalize_deployment_id(raw[i]))
    IN  seen[Len(raw)]

KeyAccepted(key) == key \in HexKeys \cup SpacedKeys
PortAccepted(port) == port \in 1..65535

ClientLoads(d) ==
    /\ PortAccepted(d.port)
    /\ Strip(d.user) = Empty <=> Strip(d.pass) = Empty
    /\ d.relay = <<>> =>
          d.keys # <<>> /\ \A id \in ToSet(_parse_script_keys(d.keys)) :
                              _validate_deployment_id(id)
    /\ KeyAccepted(d.tunnel_key)
    /\ d.coalesce >= 0 /\ d.slots \in 0..3

load_client_config(d) ==
    [d EXCEPT !.user = Strip(@), !.pass = Strip(@),
              !.sni = IF @ = <<>> THEN <<"www.google.com">> ELSE @,
              !.keys = IF d.relay = <<>> THEN _parse_script_keys(@) ELSE <<>>,
              !.slots = IF @ = 0 THEN 2 ELSE @]

ServerLoads(d) ==
    /\ PortAccepted(d.port) /\ KeyAccepted(d.tunnel_key)
    /\ d.proxy.host # Empty => d.proxy.scheme = "socks5"
    /\ d.initial >= 0

load_server_config(d) == [d EXCEPT !.proxy.scheme = Empty]

Loads(d)  == IF how.role = "client" THEN ClientLoads(d) ELSE ServerLoads(d)
Loaded(d) == IF how.role = "client" THEN load_client_config(d) ELSE load_server_config(d)

CanLoad(path) == "json" \in DOMAIN files[path] /\ Loads(files[path].json)

(* What the environment sets is not validated.                             *)
Clamp(slots) == Max({0, Min({3, slots})})

client_env_overrides(c) ==
    [f \in DOMAIN c |-> IF f \notin DOMAIN env THEN c[f]
                        ELSE IF f = "slots" THEN Clamp(env[f]) ELSE env[f]]
server_env_overrides(c) ==
    [f \in DOMAIN c |-> IF f \in DOMAIN env THEN env[f] ELSE c[f]]
apply_env_overrides(c) ==
    IF how.role = "client" THEN client_env_overrides(c) ELSE server_env_overrides(c)

(* A number that is none.                                                  *)
EnvRaises == "unparsable" \in DOMAIN env
----------------------------------------------------------------------------
(* The shells.  Every prompt blocks the event loop, on which nothing else  *)
(* runs meanwhile.                                                         *)
AtPrompt == stage = "menu"
Prompted == AtPrompt /\ UNCHANGED <<fixed, net, tty, pid, shutdown, unit, status>>
Editing(r) ==
    /\ Prompted /\ how.role = r /\ config # Nothing /\ edits < MaxEdits
    /\ touched' = TRUE /\ edits' = edits + 1
    /\ UNCHANGED <<disk, config_path, stage>>

(* Mutation: the path is taken before the file has been looked at.         *)
_load_config_PathFirst(path) ==
    /\ Prompted /\ config_path' = path
    /\ IF CanLoad(path)
       THEN config' = Loaded(files[path].json) /\ touched' = FALSE
       ELSE UNCHANGED <<config, touched>>
    /\ UNCHANGED <<disk, stage, edits>>

_load_config(path) ==
    /\ Prompted /\ CanLoad(path)
    /\ config' = Loaded(files[path].json) /\ touched' = FALSE /\ config_path' = path
    /\ UNCHANGED <<disk, stage, edits>>

_edit_socks ==
    /\ Editing("client")
    /\ \E port \in Ports, user, pass \in Words :
          config' = [config EXCEPT !.port = port, !.user = user, !.pass = pass]

_edit_google ==
    /\ Editing("client")
    /\ \E sni \in Sni : config' = [config EXCEPT !.sni = sni]

_manage_script_keys ==
    /\ Editing("client")
    /\ \/ \E id \in Ids : config' = [config EXCEPT !.keys = Append(@, id)]
       \/ \E i \in DOMAIN config.keys : config' = [config EXCEPT !.keys = RemoveAt(@, i)]

(* A key that is typed is checked, a new one is random.                    *)
_set_tunnel_key ==
    /\ \E r \in {"client", "server"} : Editing(r)
    /\ \E key \in HexKeys \cup {k \in TypedKeys : KeyAccepted(k)} :
          config' = [config EXCEPT !.tunnel_key = key]

_set_coalesce ==
    /\ Editing("client")
    /\ \E n \in {-1, 25} : config' = [config EXCEPT !.coalesce = Max({0, n})]

_set_idle_slots ==
    /\ Editing("client")
    /\ \E n \in {0, 3, 4} : config' = [config EXCEPT !.slots = Clamp(n)]

_edit_listen ==
    /\ Editing("server")
    /\ \E port \in Ports : config' = [config EXCEPT !.port = port]

_toggle_proxy ==
    /\ Editing("server")
    /\ IF config.proxy.host # Empty
       THEN config' = [config EXCEPT !.proxy = NoProxy]
       ELSE \E proxy \in Proxies : config' = [config EXCEPT !.proxy = proxy]

(* Where a number is asked for, anything else ends the program.            *)
Exits(code) ==
    /\ stage' = "ended" /\ status' = code
    /\ running' = FALSE /\ listening' = FALSE
    /\ UNCHANGED <<fixed, disk, conf, tty, shutdown, unit>>

Mistype == AtPrompt /\ Exits("error") /\ UNCHANGED pid

(* A file is emptied when it is opened and written when it is closed.      *)
(* The wizard replaces the config first and validates nothing; without a   *)
(* deployment id it ends there.                                            *)
Opens(path, by) ==
    /\ stage' = "saving" /\ saving' = [path |-> path, by |-> by]
    /\ files' = [files EXCEPT ![path] = Torn]
    /\ origin' = [origin EXCEPT ![path] = Nothing]

Save(path, by) ==
    /\ Prompted /\ config # Nothing /\ edits < MaxEdits
    /\ Opens(path, by) /\ edits' = edits + 1
    /\ UNCHANGED <<config, config_path, touched>>
_save_config(path)   == Save(path, "save")
_export_config(path) == Save(path, "export")

_setup_wizard(path) ==
    /\ Prompted /\ edits < MaxEdits /\ edits' = edits + 1
    /\ \E c \in Answers(how.role) :
          /\ touched' = TRUE
          /\ IF how.role = "client" /\ c.keys = <<>>
             THEN /\ config' = [c EXCEPT !.tunnel_key = Empty, !.coalesce = 0, !.slots = 2]
                  /\ UNCHANGED <<disk, stage, config_path>>
             ELSE config' = c /\ Opens(path, "wizard") /\ config_path' = path

(* What is saved: neither relay_urls nor the server's                      *)
(* initial_response_bytes_pre_encode.                                      *)
(* Mutation: nor coalesce_step_ms.                                         *)
ClientDumpWithoutStep(c) == [c EXCEPT !.relay = <<>>, !.coalesce = 0]

ClientDump(c) == [c EXCEPT !.relay = <<>>]
ServerDump(c) == [c EXCEPT !.initial = 0]
Dump(c) == IF how.role = "client" THEN ClientDump(c) ELSE ServerDump(c)

Saved ==
    /\ stage = "saving" /\ stage' = "menu" /\ saving' = Nothing
    /\ files' = [files EXCEPT ![saving.path] = File(Dump(config))]
    /\ origin' = [origin EXCEPT ![saving.path] = config]
    /\ config_path' = IF saving.by = "save" THEN saving.path ELSE config_path
    /\ UNCHANGED <<fixed, config, touched, edits, net, tty, pid, shutdown, unit, status>>

(* A full disk.                                                            *)
SaveFails == stage = "saving" /\ Exits("error") /\ UNCHANGED pid

Quit == AtPrompt /\ Exits("ok") /\ UNCHANGED pid
----------------------------------------------------------------------------
(* From the command line to the coroutine that serves.                     *)
Start ==
    /\ stage = "off"
    /\ IF how.mode = "shell"
       THEN /\ stage' = "menu" /\ UNCHANGED <<touched, status>>
            /\ config' = IF CanLoad(config_path) THEN Loaded(files[config_path].json)
                         ELSE Nothing
       ELSE IF CanLoad(config_path) /\ ~EnvRaises
       THEN /\ stage' = IF how.mode = "daemon" THEN "detaching" ELSE "starting"
            /\ config' = apply_env_overrides(Loaded(files[config_path].json))
            /\ touched' = (config' # Loaded(files[config_path].json))
            /\ UNCHANGED status
       ELSE /\ stage' = "ended" /\ status' = "error" /\ UNCHANGED <<config, touched>>
    /\ UNCHANGED <<fixed, disk, config_path, edits, net, tty, pid, shutdown, unit>>

(* start_tunnel and start_server, chosen at the prompt.                    *)
StartChosen ==
    /\ Prompted /\ config # Nothing
    /\ stage' = "starting"
    /\ UNCHANGED <<disk, conf>>

(* How the coroutine ends: back to the menu, or with the program.  The     *)
(* daemon does not look at what it raised, unless it shuts down by then:   *)
(* it raises that again and its status is not 0, which is left out here.   *)
Returns ==
    /\ stage' = CASE how.mode = "shell" -> "menu" [] how.mode = "headless" -> "ended"
                  [] OTHER -> "leaving"
    /\ status' = IF how.mode = "headless" THEN "ok" ELSE status
    /\ UNCHANGED <<fixed, disk, conf, interrupts, pid, shutdown, unit>>

Raises(code) ==
    /\ stage' = IF how.mode = "daemon" THEN "leaving" ELSE "ended"
    /\ status' = IF how.mode = "daemon" THEN status ELSE code
    /\ running' = FALSE /\ listening' = FALSE
    /\ UNCHANGED <<fixed, disk, conf, interrupts, cancelled, pid, shutdown, unit>>

KeyRejected ==
    /\ stage = "starting" /\ config.tunnel_key \notin HexKeys
    /\ Raises("error")

(* The client's carrier and listener are started by coroutines that        *)
(* return: the task group that is to run them is done, and stops them.     *)
Serve ==
    /\ stage' = "serving" /\ running' = TRUE
    /\ UNCHANGED <<fixed, disk, conf, tty, pid, shutdown, unit, status>>

StartTunnel ==
    /\ stage = "starting" /\ how.role = "client" /\ config.tunnel_key \in HexKeys
    /\ listening' \in {FALSE, PortAccepted(config.port)}
    /\ Serve

TunnelDone ==
    /\ stage = "serving" /\ how.role = "client"
    /\ stage' = "ending" /\ cancelled' = FALSE
    /\ UNCHANGED <<fixed, disk, conf, net, interrupts, pid, shutdown, unit, status>>

(* The server's listener may fail to start, or be cancelled: both end the  *)
(* coroutine before its try.                                               *)
StartServer ==
    /\ stage = "starting" /\ how.role = "server" /\ config.tunnel_key \in HexKeys
    /\ ~cancelled /\ PortAccepted(config.port)
    /\ listening' = TRUE
    /\ Serve

StartServerFails ==
    /\ stage = "starting" /\ how.role = "server" /\ config.tunnel_key \in HexKeys
    /\ IF cancelled THEN Raises("ok") ELSE Raises("error")

(* Mutation: the server sleeps until something wakes it.                   *)
WakeOnCancel ==
    /\ stage = "serving" /\ how.role = "server" /\ cancelled
    /\ stage' = "ending" /\ cancelled' = FALSE
    /\ UNCHANGED <<fixed, disk, conf, net, interrupts, pid, shutdown, unit, status>>

(* Every second the server's loop wakes, and runs what a signal handler    *)
(* has made ready: the event cancels the server's task.                    *)
Wake ==
    /\ stage = "serving" /\ how.role = "server" /\ (cancelled \/ shutdown)
    /\ stage' = "ending" /\ cancelled' = FALSE
    /\ UNCHANGED <<fixed, disk, conf, net, interrupts, pid, shutdown, unit, status>>

(* Mutation: the listener is left as it is.                                *)
CleanupLeavesOpen ==
    /\ stage = "ending"
    /\ running' = FALSE /\ UNCHANGED <<listening, cancelled>>
    /\ Returns

(* runner.cleanup, or the stops of carrier and listener.                   *)
Cleanup ==
    /\ stage = "ending"
    /\ running' = FALSE /\ listening' = FALSE /\ UNCHANGED cancelled
    /\ Returns

(* Ctrl+C.  asyncio cancels the task the first time, which a task at a     *)
(* prompt sees only when it awaits something, and raises from then on.     *)
CtrlC ==
    /\ how.mode # "daemon" /\ stage \in {"menu", "saving", "starting", "serving"}
    /\ IF interrupts = 0
       THEN /\ interrupts' = 1 /\ cancelled' = TRUE
            /\ UNCHANGED <<fixed, disk, conf, net, pid, stage, shutdown, unit, status>>
       ELSE /\ Exits(IF how.role = "client" /\ how.mode = "headless" THEN "signal" ELSE "ok")
            /\ UNCHANGED pid
----------------------------------------------------------------------------
(* The daemon.  Each fork leaves its parent with status 0.                 *)
DaemonStep(from, to) ==
    /\ how.mode = "daemon" /\ stage = from /\ stage' = to
    /\ UNCHANGED <<fixed, disk, conf, net, tty, other, shutdown, unit>>

_daemonize ==
    /\ \/ DaemonStep("detaching", "detached") /\ status' = status
       \/ DaemonStep("detaching", "ended") /\ status' = "error"
    /\ UNCHANGED pidfile

(* The file may not be writable; the daemon goes on.                       *)
_write_pidfile ==
    /\ DaemonStep("detached", "named") /\ UNCHANGED status
    /\ pidfile' = IF how.pidfile_ok THEN "self" ELSE pidfile

_setup_signal_handlers ==
    DaemonStep("named", "starting") /\ UNCHANGED <<pidfile, status>>

(* Mutation: the pidfile stays.                                            *)
_remove_pidfile_Not ==
    DaemonStep("leaving", "ended") /\ status' = "ok" /\ UNCHANGED pidfile

_remove_pidfile ==
    DaemonStep("leaving", "ended") /\ status' = "ok" /\ pidfile' = "none"

(* SIGTERM and SIGINT; before the handlers are there they end the process. *)
HandlersInstalled == stage \in {"starting", "serving", "ending", "leaving"}
Alive == stage \notin {"off", "ended"}

_handle_signal ==
    IF HandlersInstalled
    THEN shutdown' = TRUE /\ UNCHANGED <<stage, status>>
    ELSE stage' = "ended" /\ status' = "signal" /\ UNCHANGED shutdown

Terminate ==
    /\ how.mode = "daemon" /\ Alive /\ ~shutdown
    /\ _handle_signal
    /\ UNCHANGED <<fixed, disk, conf, net, tty, pid, unit>>

(* A crash of the machine's making: nothing is cleaned up.                 *)
Kill ==
    /\ Alive /\ Exits("signal") /\ UNCHANGED pid

(* Another daemon of the same kind, with the same pidfile.                 *)
OtherStarts ==
    /\ how.mode = "daemon" /\ other = "no" /\ other' = "up" /\ pidfile' = "other"
    /\ UNCHANGED <<fixed, disk, conf, net, tty, stage, shutdown, unit, status>>
OtherEnds ==
    /\ other = "up" /\ other' = "gone" /\ pidfile' = "none"
    /\ UNCHANGED <<fixed, disk, conf, net, tty, stage, shutdown, unit, status>>

(* The units are of Type=simple: when the process systemd started exits,   *)
(* as it does in the first fork, the unit has ended.  The rest of its      *)
(* processes get a SIGTERM, and when they are gone it is started again.    *)
UnitEnds ==
    /\ unit = "up" /\ stage \notin {"off", "detaching"} /\ unit' = "stopping"
    /\ IF Alive THEN _handle_signal ELSE UNCHANGED <<stage, status, shutdown>>
    /\ UNCHANGED <<fixed, disk, conf, net, tty, pid>>

UnitRestarts ==
    /\ unit = "stopping" /\ stage = "ended" /\ unit' = "up"
    /\ stage' = "off" /\ status' = "none" /\ shutdown' = FALSE
    /\ config' = Nothing /\ touched' = FALSE /\ running' = FALSE /\ listening' = FALSE
    /\ UNCHANGED <<fixed, disk, config_path, edits, tty, pid>>
----------------------------------------------------------------------------
Init ==
    /\ how \in Setups /\ env \in Environments(how.role)
    /\ files \in [Paths -> {Nothing} \cup {File(d) : d \in Contents(how.role)}]
    /\ \A p \in Paths \ {DefaultPath} : files[p] = Nothing
    /\ how.mode = "shell" => env = << >>
    /\ origin = [p \in Paths |-> Nothing] /\ saving = Nothing
    /\ config = Nothing /\ config_path = DefaultPath /\ touched = FALSE /\ edits = 0
    /\ stage = "off" /\ running = FALSE /\ listening = FALSE /\ status = "none"
    /\ interrupts = 0 /\ cancelled = FALSE /\ shutdown = FALSE
    /\ pidfile = "none" /\ other = "no"
    /\ unit = IF how.supervised THEN "up" ELSE "none"

Edit ==
    \/ _edit_socks \/ _edit_google \/ _manage_script_keys \/ _set_tunnel_key
    \/ _set_coalesce \/ _set_idle_slots \/ _edit_listen \/ _toggle_proxy
OnFile(path) ==
    \/ _load_config(path) \/ _save_config(path) \/ _export_config(path)
    \/ _setup_wizard(path)
Steps ==
    \/ Saved \/ KeyRejected \/ StartTunnel \/ TunnelDone
    \/ StartServer \/ StartServerFails \/ Wake \/ Cleanup
    \/ _daemonize \/ _write_pidfile \/ _setup_signal_handlers \/ _remove_pidfile
Next ==
    \/ Edit \/ (\E path \in Paths : OnFile(path))
    \/ Start \/ Mistype \/ SaveFails \/ Quit \/ StartChosen \/ Steps
    \/ CtrlC \/ Terminate \/ Kill \/ OtherStarts \/ OtherEnds \/ UnitEnds \/ UnitRestarts

Spec == Init /\ [][Next]_vars
FairSpec == Spec /\ WF_vars(Steps)
----------------------------------------------------------------------------
(***************************************************************************)
(* Properties.                                                             *)
(***************************************************************************)
Stages == {"off", "menu", "saving", "starting", "serving", "ending", "leaving",
           "detaching", "detached", "named", "ended"}

(* Between two choices of its menu, and when it has ended, a program has   *)
(* no listener open and nothing running; while it saves or starts it has a *)
(* config.  Every config, in a file or in use, has the fields of its role; *)
(* a file is torn only while it is being saved, or when the program ended  *)
(* in the middle.                                                          *)
TypeOK ==
    /\ how \in Setups /\ env \in Environments(how.role)
    /\ DOMAIN files = Paths
    /\ \A p \in Paths : files[p] \in {Nothing, Torn} \cup [json : Config(how.role)]
    /\ DOMAIN origin = Paths
    /\ \A p \in Paths : origin[p] \in {Nothing} \cup Config(how.role)
    /\ config \in {Nothing} \cup Config(how.role)
    /\ saving \in {Nothing} \cup [path : Paths, by : {"save", "export", "wizard"}]
    /\ touched \in BOOLEAN /\ cancelled \in BOOLEAN /\ shutdown \in BOOLEAN
    /\ running \in BOOLEAN /\ listening \in BOOLEAN /\ interrupts \in {0, 1}
    /\ pidfile \in {"none", "self", "other"} /\ other \in {"no", "up", "gone"}
    /\ unit \in {"none", "up", "stopping"}
    /\ stage \in Stages /\ status \in {"none", "ok", "error", "signal"}
    /\ (status = "none") <=> (stage # "ended")
    /\ listening => running /\ stage \in {"serving", "ending"}
    /\ stage \notin {"off", "menu", "ended"} => config # Nothing
    /\ config_path \in Paths /\ edits \in 0..MaxEdits
    /\ (saving # Nothing) <=> (\E p \in Paths : files[p] = Torn)

(* A config that came from a file, and was not edited since, is one the    *)
(* tunnel can be run with: its endpoints are deployment ids and differ,    *)
(* there is an SNI host to take turns with (load_client_config), and so    *)
(* on.  Only a tunnel with relay_urls has no endpoint, as the carrier does *)
(* not look at them; and a key with blanks in it is accepted.              *)
Valid(c) ==
    /\ PortAccepted(c.port) /\ KeyAccepted(c.tunnel_key)
    /\ how.role = "client" =>
          /\ IsInjective(c.keys) /\ \A id \in ToSet(c.keys) : Len(id) = 1 /\ id[1] \in DeploymentIds
          /\ c.keys = <<>> => c.relay # <<>>
          /\ c.sni # <<>> /\ c.slots \in 1..3 /\ c.coalesce >= 0
          /\ c.user = Empty <=> c.pass = Empty
          /\ Blank \notin {c.user, c.pass}
LoadedIsValid == config # Nothing /\ ~touched => Valid(config)

(* What was saved, exported or written by the wizard (_save_config and its *)
(* copies) gives the same config when it is loaded again, if that config   *)
(* was valid and unless it had relay_urls, a proxy, or a first response    *)
(* size: these do not survive.                                             *)
Survives(c) ==
    IF how.role = "client" THEN c.relay = <<>>
    ELSE c.proxy.host = Empty /\ c.initial = 0
SavedReloads ==
    \A p \in Paths : origin[p] # Nothing /\ Valid(origin[p]) =>
        (Survives(origin[p]) <=> CanLoad(p) /\ Loaded(files[p].json) = origin[p])

(* config_path names the file that holds the config, or the one the wizard *)
(* is about to write: a load that fails leaves both as they were.          *)
PathFollowsConfig ==
    [][config_path' # config_path =>
         \/ saving' # Nothing /\ saving'.path = config_path'
         \/ files'[config_path'] = File(Dump(config'))
         \/ CanLoad(config_path') /\ config' = Loaded(files[config_path'].json)]_vars

(* A daemon that serves is the one its pidfile names, while there is no    *)
(* other; one that has left has taken it away, unless a signal ended it    *)
(* before its handlers were there (Daemon.start).                          *)
PidfileHonest ==
    /\ how.mode = "daemon" /\ stage = "serving" /\ other = "no" /\ how.pidfile_ok =>
          pidfile = "self"
    /\ stage = "ended" /\ pidfile = "self" /\ ~how.supervised => status = "signal"

(* A daemon that was told to stop stops, although its handler wakes no     *)
(* loop (_handle_signal).                                                  *)
StopsWhenTold == shutdown ~> stage = "ended"
============================================================================
