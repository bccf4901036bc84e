------------------------------ MODULE Session ------------------------------
(***************************************************************************)
(* A run of the program (src/src/main.cc): the command line is read three  *)
(* times, once for the logger, once for the settings, once for the objects *)
(* to run, which open their database at once; then one of them is          *)
(* executed, or the workload script (run_suite/workloads_script.h), and    *)
(* the databases are destroyed as their owners are.                        *)
(*                                                                         *)
(* All databases share one path.  To open one removes the file there and   *)
(* creates a new one, to destroy one truncates what the path leads to,     *)
(* whoever wrote it.  What a database does is reduced to the pages it      *)
(* writes to its file and reads again.                                     *)
(***************************************************************************)
EXTENDS Integers, Sequences, FiniteSets, SequencesExt

CONSTANTS
  Arguments,            \* the arguments that may be given
  MaxArguments,         \* bound: so many of them
  IntBits, LongBits,    \* the width of int and of uint64_t
  ScriptRuns,           \* bound: how often the script calls run_workload
  MaxSaved              \* bound: pages that one database writes

(* An argument is an option with a text or a number, or an option alone. *)
Texts == {"verbosity_level", "log_mode", "run_config", "workload"}
Numbers == {"cache", "buffer_size", "radix_tree_size"}
Flags == {"benchmark", "c", "script", "help"}

ASSUME SessionAssumption ==
  /\ \A a \in Arguments :
       \/ a \in [option : Flags]
       \/ a \in [option : Texts, text : STRING]
       \/ a \in [option : Numbers, number : 0 .. 2^LongBits - 1]
  /\ {MaxArguments, ScriptRuns, MaxSaved} \subseteq Nat
  /\ {IntBits, LongBits} \subseteq Nat \ {0} /\ IntBits < LongBits

VARIABLES argv, phase, at,      \* the command line, what main does, and where
          configuration,
          logger,               \* [level, sink], as far as they are known
          run_option_set,
          run, workload,        \* the database of each global, 0 for a null pointer
          script,               \* the script's database, and its calls of run_workload
          runs,
          db                    \* what there is on disk and in memory

vars == <<argv, phase, at, configuration, logger, run_option_set,
          run, workload, script, runs, db>>

-----------------------------------------------------------------------------
(* The databases ever opened, the files ever created with the number of    *)
(* pages in them, and the file that the path leads to.                     *)
NoDatabase == [managers |-> << >>, files |-> << >>, data |-> 0]

(* The DataManager constructor.  Mutant: it writes its first page at once. *)
Opened_Saves(d, size, cached, cache_size) ==
  [managers |-> Append(d.managers,
     [buffer_size |-> size, cache |-> cached, radix_tree_size |-> cache_size,
      file |-> Len(d.files) + 1, saved |-> 1, destroyed |-> 0]),
   files |-> Append(d.files, 1),
   data |-> Len(d.files) + 1]
Opened(d, size, cached, cache_size) ==
  [managers |-> Append(d.managers,
     [buffer_size |-> size, cache |-> cached, radix_tree_size |-> cache_size,
      file |-> Len(d.files) + 1, saved |-> 0, destroyed |-> 0]),
   files |-> Append(d.files, 0),
   data |-> Len(d.files) + 1]

Newest(d) == Len(d.managers)

(* One more page goes to the database's own file. *)
Saved(d, m) ==
  [d EXCEPT !.managers[m].saved = @ + 1, !.files[d.managers[m].file] = @ + 1]

(* DataManager::destroy: the root at least is dirty and goes to the file;  *)
(* then StorageManager::destroy truncates the file at the path.            *)
Destroyed(d, m) ==
  [Saved(d, m) EXCEPT !.managers[m].destroyed = @ + 1, !.files[d.data] = 0]

(* The end of an owner that may be a null pointer. *)
Released(d, m) == IF m = 0 THEN d ELSE Destroyed(d, m)

(* The constructors of the run configurations take int, Workload does not. *)
Narrow(n) ==
  LET low == n % 2^IntBits IN
  IF low < 2^(IntBits - 1) THEN low ELSE 2^LongBits - 2^IntBits + low

-----------------------------------------------------------------------------
Init ==
  /\ argv \in SeqOf(Arguments, MaxArguments)
  /\ phase = "logging" /\ at = 1
  /\ configuration = [buffer_size |-> 5, radix_tree_size |-> 3, cache |-> FALSE,
                      benchmark |-> FALSE, run_workload |-> FALSE, script |-> FALSE]
  /\ logger = [level |-> "info", sink |-> "c"]
  /\ run_option_set = FALSE
  /\ run = 0 /\ workload = 0 /\ script = 0 /\ runs = 0
  /\ db = NoDatabase

Argument == argv[at]
Reading(pass, options) ==
  phase = pass /\ at <= Len(argv) /\ Argument.option \in options

NextArgument == at' = at + 1 /\ UNCHANGED <<argv, phase>>

(* print_help and exit(1). *)
GiveUp ==
  /\ phase' = "exit"
  /\ UNCHANGED <<argv, at, configuration, logger, run_option_set, run, workload,
                 script, runs, db>>

objectVars == <<run_option_set, run, workload, script, runs, db>>

(* What a pass does not look at it goes over. *)
Considered ==
  [logging |-> {"benchmark", "verbosity_level", "log_mode"},
   settings |-> {"cache", "buffer_size", "radix_tree_size", "c", "help"},
   objects |-> {"run_config", "workload", "script"}]

Skip ==
  /\ phase \in DOMAIN Considered
  /\ Reading(phase, (Texts \cup Numbers \cup Flags) \ Considered[phase])
  /\ NextArgument
  /\ UNCHANGED <<configuration, logger, objectVars>>

-----------------------------------------------------------------------------
(* handle_logging. *)
LogBenchmark ==
  /\ Reading("logging", {"benchmark"})
  /\ logger' = [logger EXCEPT !.level = "off"]
  /\ configuration' = [configuration EXCEPT !.benchmark = TRUE]
  /\ NextArgument /\ UNCHANGED objectVars

(* Mutant: benchmark mode is not asked for. *)
LogVerbosity_Always ==
  /\ Reading("logging", {"verbosity_level"})
  /\ \/ /\ Argument.text # "bad"
        /\ logger' = [logger EXCEPT !.level = Argument.text]
        /\ NextArgument /\ UNCHANGED <<configuration, objectVars>>
     \/ Argument.text = "bad" /\ GiveUp
LogVerbosity ==
  /\ Reading("logging", {"verbosity_level"})
  /\ \/ /\ Argument.text # "bad" \/ configuration.benchmark
        /\ logger' = IF configuration.benchmark THEN logger
                     ELSE [logger EXCEPT !.level = Argument.text]
        /\ NextArgument /\ UNCHANGED <<configuration, objectVars>>
     \/ Argument.text = "bad" /\ ~configuration.benchmark /\ GiveUp

LogMode ==
  /\ Reading("logging", {"log_mode"})
  /\ \/ /\ Argument.text # "bad"
        /\ logger' = [logger EXCEPT !.sink = Argument.text]
        /\ NextArgument /\ UNCHANGED <<configuration, objectVars>>
     \/ Argument.text = "bad" /\ GiveUp

(* handle_arguments, first pass. *)
Setting ==
  /\ Reading("settings", Numbers \cup {"c"})
  /\ configuration' =
       CASE Argument.option = "c" -> [configuration EXCEPT !.cache = TRUE]
         [] Argument.option = "cache" -> [configuration EXCEPT !.cache = Argument.number # 0]
         [] OTHER -> [configuration EXCEPT ![Argument.option] = Argument.number]
  /\ NextArgument /\ UNCHANGED <<logger, objectVars>>

Help == Reading("settings", {"help"}) /\ GiveUp

(* The end of a pass; without a sink to a file if nothing is logged.       *)
EndPass ==
  /\ phase \in {"logging", "settings"} /\ at > Len(argv)
  /\ phase' = IF phase = "logging" THEN "settings" ELSE "objects"
  /\ at' = 1
  /\ logger' = IF phase = "logging" /\ logger.level = "off"
               THEN [logger EXCEPT !.sink = "c"] ELSE logger
  /\ UNCHANGED <<argv, configuration, objectVars>>

-----------------------------------------------------------------------------
(* handle_arguments, second pass.  reset deletes the old object when the   *)
(* new one is there; an unknown number or letter leaves it.                *)
MakeRun ==
  /\ Reading("objects", {"run_config"})
  /\ \/ /\ Argument.text \in {"1", "2"}
        /\ LET d == Opened(db, Narrow(configuration.buffer_size), configuration.cache,
                           Narrow(configuration.radix_tree_size))
           IN  db' = Released(d, run) /\ run' = Newest(d)
        /\ run_option_set' = TRUE
        /\ NextArgument
        /\ UNCHANGED <<configuration, logger, workload, script, runs>>
     \/ /\ Argument.text = "unknown"
        /\ run_option_set' = TRUE
        /\ NextArgument
        /\ UNCHANGED <<configuration, logger, run, workload, script, runs, db>>
     \/ Argument.text = "no digit" /\ GiveUp

(* Workload or one of its subclasses.  Mutant: the old object is deleted   *)
(* by hand, reset deletes it again.                                        *)
MakeWorkload_Twice ==
  /\ Reading("objects", {"workload"})
  /\ configuration' = [configuration EXCEPT !.run_workload = TRUE]
  /\ run_option_set' = TRUE
  /\ \/ /\ Argument.text # "unknown"
        /\ LET d == Opened(Released(db, workload), configuration.buffer_size,
                           configuration.cache, configuration.radix_tree_size)
           IN  db' = Released(d, workload) /\ workload' = Newest(d)
     \/ Argument.text = "unknown" /\ UNCHANGED <<db, workload>>
  /\ NextArgument
  /\ UNCHANGED <<logger, run, script, runs>>
MakeWorkload ==
  /\ Reading("objects", {"workload"})
  /\ configuration' = [configuration EXCEPT !.run_workload = TRUE]
  /\ run_option_set' = TRUE
  /\ \/ /\ Argument.text # "unknown"
        /\ LET d == Opened(db, configuration.buffer_size, configuration.cache,
                           configuration.radix_tree_size)
           IN  db' = Released(d, workload) /\ workload' = Newest(d)
     \/ Argument.text = "unknown" /\ UNCHANGED <<db, workload>>
  /\ NextArgument
  /\ UNCHANGED <<logger, run, script, runs>>

ChooseScript ==
  /\ Reading("objects", {"script"})
  /\ configuration' = [configuration EXCEPT !.run_workload = TRUE, !.script = TRUE]
  /\ run_option_set' = TRUE
  /\ NextArgument
  /\ UNCHANGED <<logger, run, workload, script, runs, db>>

(* main after handle_arguments.  The script's first database is destroyed  *)
(* in its constructor.  A null pointer is executed as if it were not one.  *)
EndObjects ==
  /\ phase = "objects" /\ at > Len(argv)
  /\ \/ ~run_option_set /\ GiveUp
     \/ /\ run_option_set
        /\ LET scripted == configuration.run_workload /\ configuration.script
               object == IF configuration.run_workload THEN workload ELSE run
           IN  /\ phase' = IF scripted THEN "script" ELSE IF object = 0 THEN "crash" ELSE "execute"
               /\ db' = IF scripted
                        THEN LET d == Opened(db, 1, FALSE, 1) IN Destroyed(d, Newest(d))
                        ELSE db
        /\ UNCHANGED <<argv, at, configuration, logger, run_option_set, run, workload,
                       script, runs>>

-----------------------------------------------------------------------------
(* The database at work, 0 if there is none. *)
Executed ==
  CASE phase = "execute" -> IF configuration.run_workload THEN workload ELSE run
    [] phase = "script" -> script
    [] OTHER -> 0

(* A dirty page is evicted. *)
Evict ==
  /\ Executed # 0 /\ db.managers[Executed].saved < MaxSaved
  /\ db' = Saved(db, Executed)
  /\ UNCHANGED <<argv, phase, at, configuration, logger, run_option_set, run, workload,
                 script, runs>>

(* execute returns, or exits as it finds the proportions wrong. *)
EndExecution ==
  /\ phase = "execute" /\ phase' = "exit"
  /\ UNCHANGED <<argv, at, configuration, logger, run_option_set, run, workload,
                 script, runs, db>>

(* run_workload of the script opens a database of its own and destroys it  *)
(* at its end; the next one takes its place.                               *)
BeginRun ==
  /\ phase = "script" /\ script = 0 /\ runs < ScriptRuns
  /\ db' = Opened(db, 1, TRUE, 1)
  /\ script' = Newest(db')
  /\ runs' = runs + 1
  /\ UNCHANGED <<argv, phase, at, configuration, logger, run_option_set, run, workload>>

EndRun ==
  /\ phase = "script" /\ script # 0
  /\ db' = Destroyed(db, script)
  /\ script' = 0
  /\ UNCHANGED <<argv, phase, at, configuration, logger, run_option_set, run, workload, runs>>

EndScript ==
  /\ phase = "script" /\ script = 0 /\ runs = ScriptRuns
  /\ phase' = "exit"
  /\ UNCHANGED <<argv, at, configuration, logger, run_option_set, run, workload,
                 script, runs, db>>

(* The globals end in the opposite order of their definitions. *)
EndWorkload ==
  /\ phase = "exit" /\ phase' = "end_run"
  /\ db' = Released(db, workload)
  /\ workload' = 0
  /\ UNCHANGED <<argv, at, configuration, logger, run_option_set, run, script, runs>>

EndRunConfig ==
  /\ phase = "end_run" /\ phase' = "ended"
  /\ db' = Released(db, run)
  /\ run' = 0
  /\ UNCHANGED <<argv, at, configuration, logger, run_option_set, workload, script, runs>>

Next ==
  \/ Skip \/ LogBenchmark \/ LogVerbosity \/ LogMode \/ Setting \/ Help \/ EndPass
  \/ MakeRun \/ MakeWorkload \/ ChooseScript \/ EndObjects
  \/ Evict \/ EndExecution \/ BeginRun \/ EndRun \/ EndScript
  \/ EndWorkload \/ EndRunConfig

Spec == Init /\ [][Next]_vars

-----------------------------------------------------------------------------
(* What the command line says of an option: the last time counts. *)
Given(options, default) ==
  LET places == {i \in DOMAIN argv : argv[i].option \in options} IN
  IF places = {} THEN default
  ELSE LET last == argv[CHOOSE i \in places : \A j \in places : j <= i] IN
       IF "number" \in DOMAIN last THEN last.number ELSE 1

(* The help text, "Set the size of the cache": a cache that is turned on   *)
(* has it.                                                                 *)
CacheSizeIsObeyed ==
  phase = "execute" /\ db.managers[Executed].cache =>
    db.managers[Executed].radix_tree_size = Given({"radix_tree_size"}, 3)

(* The database that is executed has the settings of the command line, and *)
(* benchmark mode has turned the logger off, in whatever order the options *)
(* were given: also behind the object they are for, and more than once.    *)
OptionsAreObeyed ==
  phase = "execute" =>
    /\ db.managers[Executed].radix_tree_size = Given({"radix_tree_size"}, 3)
    /\ db.managers[Executed].buffer_size = Given({"buffer_size"}, 5)
    /\ db.managers[Executed].cache = (Given({"c", "cache"}, 0) # 0)
    /\ Given({"benchmark"}, 0) # 0 => logger = [level |-> "off", sink |-> "c"]

(* No database finds its file truncated under it, although all have the    *)
(* same path: what it has written is there as long as it lives.            *)
SavedPagesArePresent ==
  \A m \in DOMAIN db.managers :
    db.managers[m].destroyed = 0 => db.files[db.managers[m].file] >= db.managers[m].saved

(* Every database is destroyed, and once only, when its owner ends: also   *)
(* if the owner is replaced, never executed, or left by exit(1).  None is  *)
(* executed after that.                                                    *)
DatabasesEndOnce ==
  /\ \A m \in DOMAIN db.managers :
       db.managers[m].destroyed = IF m \in {run, workload, script} THEN 0 ELSE 1
  /\ Executed # 0 => db.managers[Executed].destroyed = 0
=============================================================================
