---------------------------- MODULE Virtualizer ----------------------------
(***************************************************************************)
(* WasiVirt: the options, collected by the builder or by the command line, *)
(* perhaps filtered by what a component imports, and finish, which makes   *)
(* the adapter that these options call for.  finish starts from one        *)
(* prebuilt adapter that has everything and takes away from it: imports    *)
(* are replaced by unreachable instructions (stubbed), exports are removed *)
(* with their imports (stripped) or replaced (denied), and a world says    *)
(* which interfaces the encoded component exports.  Each of these is       *)
(* decided by its own test of the options, in three files; they have to    *)
(* fit together for every combination.                                     *)
(*                                                                         *)
(* An interface stands for the group of WASI interfaces that the code      *)
(* never tells apart.  Contents of the environment, the configuration and  *)
(* the filesystem are the business of other modules.                       *)
(***************************************************************************)
EXTENDS FiniteSets

CONSTANTS
  Toggles,     (* the switches that builder and command line vary          *)
  Streams,     (* the standard streams                                     *)
  Components   (* the components to virtualize: the interfaces they import *)

Switches == {"exit", "clocks", "http", "sockets", "random"}
StdioCfg == {"allow", "ignore", "deny"}
HostAccess == {"none", "all", "some"}   \* HostEnv and HostConfig; lists are "some"

\* What the prefixes that the code passes around match.
Starting ==
  [prefix \in {"wasi:cli/environment", "wasi:config/store", "wasi:cli/std",
               "wasi:cli/terminal", "wasi:cli/clocks", "wasi:cli/exit", "wasi:http/",
               "wasi:sockets/", "wasi:random/", "wasi:clocks/", "wasi:filesystem/",
               "wasi:io/"} |->
     CASE prefix = "wasi:cli/environment" -> {"environment"}
       [] prefix = "wasi:config/store"    -> {"store"}
       [] prefix = "wasi:cli/std"         -> {"std"}
       [] prefix = "wasi:cli/terminal"    -> {"terminal"}
       [] prefix = "wasi:cli/clocks"      -> {}
       [] prefix = "wasi:cli/exit"        -> {"exit"}
       [] prefix = "wasi:http/"           -> {"http", "incoming-handler"}
       [] prefix = "wasi:sockets/"        -> {"sockets", "network"}
       [] prefix = "wasi:random/"         -> {"random"}
       [] prefix = "wasi:clocks/"         -> {"monotonic-clock", "wall-clock"}
       [] prefix = "wasi:filesystem/"     -> {"filesystem"}
       [] prefix = "wasi:io/"             -> {"io"}]
Interfaces == UNION {Starting[prefix] : prefix \in DOMAIN Starting}

ASSUME ConstantsAssumption ==
  /\ Toggles \subseteq Switches /\ Components \subseteq SUBSET Interfaces
  /\ "stderr" \in Streams

VARIABLES
  opts,      (* the struct WasiVirt                                        *)
  asked,     (* history: the options before filter_imports                 *)
  result     (* what finish returned                                       *)

optVars == <<opts, asked, result>>

-----------------------------------------------------------------------------
(***************************************************************************)
(* The options.  "unset" is Option's None.  A record with set = FALSE is   *)
(* None, its other fields the defaults get_or_insert_with would give.      *)
(***************************************************************************)
AllStreams(cfg) == [stream \in Streams |-> cfg]
NoFs == [set |-> FALSE, host_preopens |-> FALSE, runtime |-> FALSE]
NoStdio == [set |-> FALSE, cfg |-> AllStreams("allow")]
NoComponent == {}

WasiVirt ==
  [switch : [Switches -> {"unset", "allow", "deny"}],
   env    : HostAccess \cup {"unset"},
   config : HostAccess \cup {"unset"},
   fs     : [set : BOOLEAN, host_preopens : BOOLEAN, runtime : BOOLEAN],
   stdio  : [set : BOOLEAN, cfg : [Streams -> StdioCfg]],
   debug  : BOOLEAN,
   compose: SUBSET Interfaces]

Default ==
  [switch |-> [s \in Switches |-> "unset"], env |-> "unset", config |-> "unset",
   fs |-> NoFs, stdio |-> NoStdio, debug |-> FALSE, compose |-> NoComponent]

\* has_virtualized_io
HasVirtualizedIo(o) ==
  o.fs.set \/ o.stdio.set \/ \E s \in {"clocks", "http", "sockets"} : o.switch[s] # "unset"

-----------------------------------------------------------------------------
(***************************************************************************)
(* The module.  A module has its imports of the host, its exports, those   *)
(* of them that do nothing but trap, and the world it is encoded with.     *)
(***************************************************************************)
Adapter ==
  LET everything == {"environment", "store", "io", "std", "terminal", "monotonic-clock",
                     "http", "sockets", "filesystem"}
  IN  [imports |-> everything, exports |-> everything, traps |-> {}, world |-> {}]

\* stub_virt, strip_virt, replace_or_insert_stub_for_exports, merge_worlds
Stub(m, interfaces) == [m EXCEPT !.imports = @ \ interfaces]
Strip(m, interfaces) ==
  [Stub(m, interfaces) EXCEPT !.exports = @ \ interfaces, !.traps = @ \ interfaces]
ReplaceOrInsert(m, interfaces) ==
  [m EXCEPT !.exports = @ \cup interfaces, !.traps = @ \cup interfaces]
Merge(m, interfaces) == [m EXCEPT !.world = @ \cup interfaces]

\* strip_env_virt and strip_config_virt leave the exports in place.
StripCli(m, interface) == [Stub(m, {interface}) EXCEPT !.traps = @ \cup {interface}]

\* create_env_virt and strip_env_virt, create_config_virt and strip_config_virt
HostStage(m, host, interface) ==
  CASE host = "unset" -> StripCli(m, interface)
    [] host = "none"  -> Merge(Stub(m, {interface}), {interface})
    [] OTHER          -> Merge(m, {interface})

DisableStdio(o) == o.stdio.set => \A stream \in Streams : o.stdio.cfg[stream] # "allow"

\* Mutant: runtime entries are forgotten.
FsPassthroughPreopens(o) == o.fs.set /\ o.fs.host_preopens
FsPassthrough(o) == o.fs.set /\ (o.fs.host_preopens \/ o.fs.runtime)

\* create_io_virt, as far as it changes imports and exports
CreateIoVirt(m, o) ==
  LET cli == Starting["wasi:cli/std"] \cup Starting["wasi:cli/terminal"]
      stdioStripped == IF o.stdio.set THEN m ELSE Strip(m, cli)
      stdioStubbed == IF DisableStdio(o) THEN Stub(stdioStripped, cli) ELSE stdioStripped
      unused == Starting["wasi:filesystem/"]
                  \cup (IF DisableStdio(o) THEN Starting["wasi:io/"] ELSE {})
  IN  IF FsPassthrough(o) THEN stdioStubbed ELSE Stub(stdioStubbed, unused)

IoStage(m, o) ==
  IF HasVirtualizedIo(o)
    THEN Merge(CreateIoVirt(m, o), Starting["wasi:io/"])
    ELSE Strip(m, Starting["wasi:io/"])

\* The interfaces whose functions the deny stubs list.  Of ip-name-lookup, tcp and
\* udp the list names most without the resource they are methods of
\* (sockets.rs:61), which matches no export: these keep the adapter's code, over
\* the imports that deny_sockets_virt stubs.
WASI_EXIT_FNS == {"exit"}
WASI_RANDOM_FNS == {"random"}
WASI_CLOCK_FNS == {"monotonic-clock", "wall-clock"}
WASI_HTTP_FNS == {"http", "incoming-handler"}
WASI_SOCKETS_FNS == {"network"}

\* exit and random: nothing of them is in the adapter, and allowing them is
\* leaving them to the host.
OutsideStage(m, value, prefix, functions) ==
  IF value = "deny" THEN ReplaceOrInsert(Merge(m, Starting[prefix]), functions) ELSE m

\* Mutant: denying keeps the world of the interfaces that are passed on.
SwitchStageShort(m, value, prefix, functions, passed) ==
  CASE value = "deny"  -> ReplaceOrInsert(Stub(Merge(m, passed), Starting[prefix]), functions)
    [] value = "allow" -> Merge(m, passed)
    [] value = "unset" -> Strip(m, Starting[prefix])

\* clocks, sockets and http: those of their interfaces that use streams or
\* pollables are passed on by the adapter.
SwitchStage(m, value, prefix, functions, passed) ==
  CASE value = "deny"  ->
         ReplaceOrInsert(Stub(Merge(m, Starting[prefix]), Starting[prefix]), functions)
    [] value = "allow" -> Merge(m, passed)
    [] value = "unset" -> Strip(m, Starting[prefix])

StdioStage(m, o) ==
  LET cli == Starting["wasi:cli/std"] \cup Starting["wasi:cli/terminal"]
  IN  IF o.stdio.set THEN Merge(m, cli) ELSE Strip(m, cli)

\* Mutant: the exports of the filesystem are stripped without fs, stdio or not.
FsStageAlone(m, o) ==
  LET stripped == IF o.fs.set THEN m ELSE Strip(m, Starting["wasi:filesystem/"])
  IN  IF o.fs.set \/ o.stdio.set
        THEN Merge(stripped, Starting["wasi:filesystem/"])
        ELSE stripped
FsStage(m, o) ==
  IF o.fs.set \/ o.stdio.set
    THEN Merge(m, Starting["wasi:filesystem/"])
    ELSE Strip(m, Starting["wasi:filesystem/"])

\* The module that finish encodes, stage by stage.  create_io_virt and the stubs
\* of create_env_virt and create_config_virt come before all merges, but nothing
\* between touches the same interfaces.
Virtualized(o) ==
  LET env     == HostStage(Adapter, o.env, "environment")
      config  == HostStage(env, o.config, "store")
      exit    == OutsideStage(config, o.switch["exit"], "wasi:cli/exit", WASI_EXIT_FNS)
      random  == OutsideStage(exit, o.switch["random"], "wasi:random/", WASI_RANDOM_FNS)
      io      == IoStage(random, o)
      clocks  == SwitchStage(io, o.switch["clocks"], "wasi:clocks/",
                             WASI_CLOCK_FNS, {"monotonic-clock"})
      sockets == SwitchStage(clocks, o.switch["sockets"], "wasi:sockets/",
                             WASI_SOCKETS_FNS, {"sockets"})
      http    == SwitchStage(sockets, o.switch["http"], "wasi:http/",
                             WASI_HTTP_FNS, {"http"})
  IN  FsStage(StdioStage(http, o), o)

\* What wasm-compose refuses: an adapter of which the component uses nothing.
Composes(m, component) == m.world \cap component # {}

Result(o) ==
  LET m == Virtualized(o)
  IN  IF o.compose # NoComponent /\ ~Composes(m, o.compose)
        THEN [kind |-> "error", module |-> Adapter]
        ELSE [kind |-> "adapter", module |-> m]
NoResult == [kind |-> "none", module |-> Adapter]

-----------------------------------------------------------------------------
(***************************************************************************)
(* filter_imports.                                                         *)
(***************************************************************************)
IMPORT_FILTER_PREFIXES ==
  {"wasi:cli/environment", "wasi:config/store", "wasi:cli/std", "wasi:cli/terminal",
   "wasi:cli/clocks", "wasi:cli/exit", "wasi:http/", "wasi:sockets/", "wasi:random/"}

\* Mutant: terminals alone do not keep the standard streams.
FilteredStd(o) ==
  LET found == {p \in IMPORT_FILTER_PREFIXES : Starting[p] \cap o.compose # {}}
      keeps == [exit |-> "wasi:cli/exit", clocks |-> "wasi:clocks/", http |-> "wasi:http/",
                sockets |-> "wasi:sockets/", random |-> "wasi:random/"]
  IN  [o EXCEPT
        !.env = IF "wasi:cli/environment" \in found THEN @ ELSE "unset",
        !.config = IF "wasi:config/store" \in found THEN @ ELSE "unset",
        !.fs = IF "wasi:filesystem/" \in found THEN @ ELSE NoFs,
        !.stdio = IF "wasi:cli/std" \in found THEN @ ELSE NoStdio,
        !.switch = [s \in Switches |-> IF keeps[s] \in found THEN @[s] ELSE "unset"]]

Filtered(o) ==
  LET found == {p \in IMPORT_FILTER_PREFIXES : Starting[p] \cap o.compose # {}}
      keeps == [exit |-> "wasi:cli/exit", clocks |-> "wasi:clocks/", http |-> "wasi:http/",
                sockets |-> "wasi:sockets/", random |-> "wasi:random/"]
  IN  [o EXCEPT
        !.env = IF "wasi:cli/environment" \in found THEN @ ELSE "unset",
        !.config = IF "wasi:config/store" \in found THEN @ ELSE "unset",
        !.fs = IF "wasi:filesystem/" \in found THEN @ ELSE NoFs,
        !.stdio = IF {"wasi:cli/std", "wasi:cli/terminal"} \cap found # {}
                    THEN @ ELSE NoStdio,
        !.switch = [s \in Switches |-> IF keeps[s] \in found THEN @[s] ELSE "unset"]]

-----------------------------------------------------------------------------
(***************************************************************************)
(* The builder: setters in any order, then perhaps filter_imports, then    *)
(* finish.  debug, wasm_opt and wasi_version choose between builds of the  *)
(* adapter that are the same here; the command line looks at debug.        *)
(***************************************************************************)
OptInit == opts = Default /\ asked = Default /\ result = NoResult

\* The library may be called in any order; that filter_imports comes after the
\* setters and finish last, as in main and the tests, bounds the model.
Building == result = NoResult /\ opts = asked

Set(o) == opts' = o /\ asked' = o /\ UNCHANGED result

\* exit, clocks, http, sockets, random
SetSwitch ==
  /\ Building
  /\ \E s \in Toggles, value \in {"allow", "deny"} : Set([opts EXCEPT !.switch[s] = value])

\* env().allow_all, allow, deny, deny_all, and the same of config()
SetHostAccess ==
  /\ Building
  /\ \E host \in HostAccess :
       Set([opts EXCEPT !.env = host]) \/ Set([opts EXCEPT !.config = host])

\* fs().allow_host_preopens, deny_host_preopens
SetHostPreopens ==
  /\ Building
  /\ \E allowed \in BOOLEAN :
       Set([opts EXCEPT !.fs.set = TRUE, !.fs.host_preopens = allowed])

\* fs().host_preopen, preopen with a runtime entry
AddRuntimePreopen ==
  Building /\ Set([opts EXCEPT !.fs.set = TRUE, !.fs.runtime = TRUE])

\* stdio().stdin, stdout, stderr
SetStream ==
  /\ Building
  /\ \E stream \in Streams, cfg \in StdioCfg :
       Set([opts EXCEPT !.stdio.set = TRUE, !.stdio.cfg[stream] = cfg])

\* stdio().allow, ignore, deny
SetStdio ==
  /\ Building
  /\ \E cfg \in StdioCfg : Set([opts EXCEPT !.stdio = [set |-> TRUE, cfg |-> AllStreams(cfg)]])

\* The configuration is left out on purpose, says a comment.
AllowAll ==
  /\ Building
  /\ Set([opts EXCEPT !.switch = [s \in Switches |-> "allow"], !.env = "all",
                      !.fs.set = TRUE, !.fs.host_preopens = TRUE,
                      !.stdio = [set |-> TRUE, cfg |-> AllStreams("allow")]])

DenyAll ==
  /\ Building
  /\ Set([opts EXCEPT !.switch = [s \in Switches |-> "deny"], !.env = "none",
                      !.fs.set = TRUE, !.fs.host_preopens = FALSE,
                      !.stdio = [set |-> TRUE, cfg |-> AllStreams("ignore")]])

SetComponent ==
  Building /\ \E component \in Components : Set([opts EXCEPT !.compose = component])

\* Without a component it fails and changes nothing.
FilterImports ==
  /\ Building /\ opts.compose # NoComponent
  /\ opts' = Filtered(opts)
  /\ UNCHANGED <<asked, result>>

Finish ==
  /\ result = NoResult
  /\ result' = Result(opts)
  /\ UNCHANGED <<opts, asked>>

-----------------------------------------------------------------------------
(***************************************************************************)
(* The command line.  An argument that is not given is "unset"; the        *)
(* switches outside of Toggles are not given.                              *)
(***************************************************************************)
Args ==
  [allow_all : BOOLEAN, preopen : BOOLEAN, debug : BOOLEAN,
   allow : [Toggles -> {"unset", "allow", "deny"}],
   allow_stdio : {"unset", "allow", "deny"}, allow_fs : {"unset", "allow", "deny"},
   stream : [Streams -> StdioCfg \cup {"unset"}],
   allow_env : {"unset", "all", "some"}, allow_config : {"unset", "all", "some"},
   compose : Components \cup {NoComponent}]

Given(argument, default) == IF argument = "unset" THEN default ELSE argument
All(args) == IF args.allow_all THEN "allow" ELSE "deny"
StdioArg(args) == Given(args.allow_stdio, All(args))

DebugRefused(args) == args.debug /\ Given(args.stream["stderr"], StdioArg(args)) # "allow"

\* The options of main, before the component is looked at.
CliOptions(args) ==
  [switch |-> [s \in Switches |->
                 IF s \in Toggles THEN Given(args.allow[s], All(args)) ELSE All(args)],
   env    |-> Given(args.allow_env, IF args.allow_all THEN "all" ELSE "none"),
   config |-> Given(args.allow_config, "none"),
   fs     |-> [set |-> TRUE, host_preopens |-> Given(args.allow_fs, All(args)) = "allow",
               runtime |-> args.preopen],
   stdio  |-> [set |-> TRUE,
               cfg |-> [stream \in Streams |-> Given(args.stream[stream], StdioArg(args))]],
   debug  |-> args.debug,
   compose|-> args.compose]

\* main: everything from the arguments to the result.
Cli ==
  /\ opts = Default /\ Building
  /\ \E args \in Args :
       /\ ~DebugRefused(args)
       /\ asked' = CliOptions(args)
       /\ opts' = IF args.compose = NoComponent THEN asked' ELSE Filtered(asked')
       /\ result' = Result(opts')

OptNext ==
  \/ SetSwitch \/ SetHostAccess \/ SetHostPreopens \/ AddRuntimePreopen
  \/ SetStream \/ SetStdio \/ AllowAll \/ DenyAll
  \/ SetComponent \/ FilterImports \/ Finish \/ Cli

OptSpec == OptInit /\ [][OptNext]_optVars

-----------------------------------------------------------------------------
(***************************************************************************)
(* What a component gets that is composed with the adapter: an interface   *)
(* that the adapter exports comes from it, any other from the host.        *)
(***************************************************************************)
Finished == result.kind = "adapter"

\* "host": the host's own; "through": the adapter's, with the host behind it;
\* "virtual": the adapter's, whose calls of the host, if any, trap; "denied": it
\* traps itself.
Served(m, interface) ==
  IF interface \notin m.world THEN "host"
  ELSE IF interface \in m.traps THEN "denied"
  ELSE IF interface \in m.imports THEN "through"
  ELSE "virtual"

\* What the options let a component reach of the host; of the standard streams
\* and terminals, whether any: the adapter keeps their imports for one, and the
\* flags in its image tell it the others apart.  An option that is not
\* set leaves its subsystem to the host, apart from the filesystem, which
\* belongs to the standard streams if they are virtualized.
SwitchOf(interface) ==
  CASE interface \in Starting["wasi:clocks/"]  -> "clocks"
    [] interface \in Starting["wasi:http/"]    -> "http"
    [] interface \in Starting["wasi:sockets/"] -> "sockets"
    [] interface = "random"                    -> "random"
    [] interface = "exit"                      -> "exit"

Allowed(o, interface) ==
  CASE interface = "environment" -> o.env # "none"
    [] interface = "store"       -> o.config # "none"
    [] interface = "filesystem"  -> IF o.fs.set THEN o.fs.host_preopens \/ o.fs.runtime
                                              ELSE ~o.stdio.set
    [] interface \in {"std", "terminal"} ->
         o.stdio.set => \E stream \in Streams : o.stdio.cfg[stream] = "allow"
    [] OTHER                     -> o.switch[SwitchOf(interface)] # "deny"

\* Those whose functions hand out streams or pollables.
UsesIo == {"std", "terminal", "filesystem", "monotonic-clock", "http", "sockets"}

\* Streams and pollables come from one place: if the adapter provides an
\* interface that hands them out it provides io as well, with code behind it,
\* and otherwise it keeps out of io (has_virtualized_io against the tests of
\* each subsystem).
IoTogether(m) ==
  /\ m.world \cap UsesIo # {} <=> "io" \in m.world
  /\ "io" \notin m.traps

\* The adapter can be encoded: what its world exports is there, with the io that
\* goes with it, and what it imports is in its world.  The world is put together
\* by the tests of finish (lib.rs:436-569), imports and exports are taken away by
\* other tests there, in create_io_virt and in the deny stubs.
Encodes ==
  Finished =>
    /\ result.module.imports \subseteq result.module.world
    /\ result.module.world \subseteq result.module.exports
    /\ IoTogether(result.module)

\* What a component can call: if it is known, what it imports.  The interfaces of
\* io are those of whatever uses them.
Called ==
  (IF opts.compose = NoComponent THEN Interfaces ELSE opts.compose) \ {"io"}

\* The filter tests for prefixes that it never searches for, and so forgets what
\* was asked of these (lib.rs:112-120, 271, 281).
Forgotten ==
  IF opts = asked THEN {} ELSE {"filesystem", "monotonic-clock", "wall-clock"}

\* A component composed with the adapter reaches nothing of the host that was not
\* asked for: neither past the adapter, because it does not export the
\* interface, nor through it, because an import was left in place, nor because
\* the filter dropped a denial.  Of the filesystem and the clocks the last is
\* not so: FilterTransparent below is violated by it.
NothingBeyondOptions ==
  Finished =>
    \A interface \in Called \ Forgotten :
      Served(result.module, interface) \in {"host", "through"} => Allowed(asked, interface)

\* The debug adapter writes its trace to the host's stderr.  The command line
\* refuses a debug build without one, and then the filter may take it away: the
\* trace has it just if the component imports standard streams or terminals, or
\* there is none.
DebugHasStderr ==
  opts.debug =>
    ( /\ Served(result.module, "std") = "through"
      /\ opts.stdio.cfg["stderr"] = "allow" )
      <=> Called \cap {"std", "terminal"} # {}

\* create_io_virt stubs the imports of io unless files or standard streams of the
\* host are behind the adapter.  They then are behind the streams and pollables
\* of every subsystem; if only clocks, http or sockets of the host are, their
\* streams and pollables lead to a stub (virt_io.rs:519).
IoFollowsFilesAndStreams ==
  LET behind == {interface \in UsesIo : Served(result.module, interface) = "through"}
  IN  Served(result.module, "io") = "through" <=> behind \cap {"std", "filesystem"} # {}

\* What was asked for is not cut off from the host by a stub that is there for
\* the sake of another subsystem, be it of the interface's own imports or of
\* those of io, apart from the two cases above: io under clocks, http and sockets
\* alone, and the trace of a composed component without streams.
NothingAllowedIsStubbed ==
  Finished =>
    /\ \A interface \in Called \ Forgotten :
         Allowed(asked, interface) => Served(result.module, interface) \in {"host", "through"}
    /\ IoFollowsFilesAndStreams
    /\ DebugHasStderr

\* The filter drops what the component does not import, so it must not show: to
\* the component every interface it imports is served as without the filter.
FilterTransparent ==
  Finished =>
    \A interface \in opts.compose :
      Served(result.module, interface) = Served(Virtualized(asked), interface)

\* The same without the filesystem and clocks, for which it is wrong, and io,
\* whose host imports go with the filesystem's.
FilterTransparentElsewhere ==
  Finished =>
    \A interface \in opts.compose \ {"filesystem", "monotonic-clock", "wall-clock", "io"} :
      Served(result.module, interface) = Served(Virtualized(asked), interface)

=============================================================================
