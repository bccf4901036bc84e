--------------------------- MODULE Session_proofs ---------------------------
(***************************************************************************)
(* The databases of a run of the program, for every command line of any    *)
(* length: they end once, keep their pages while they live, and have the   *)
(* settings that were asked for.                                           *)
(***************************************************************************)
EXTENDS Session, TLAPS

Argument_ == [option : Flags] \cup [option : Texts, text : STRING]
               \cup [option : Numbers, number : Nat]

(* The numbers that settings have: narrowed or not. *)
Sizes == Nat \cup {Narrow(n) : n \in Nat}

Manager == [buffer_size : Sizes, cache : BOOLEAN, radix_tree_size : Sizes,
            file : Nat, saved : Nat, destroyed : Nat]

Phases == {"logging", "settings", "objects", "script", "execute", "exit",
           "end_run", "ended", "crash"}

Configuration == [buffer_size : Nat, radix_tree_size : Nat, cache : BOOLEAN,
                  benchmark : BOOLEAN, run_workload : BOOLEAN, script : BOOLEAN]
Word == STRING \cup {"info", "off", "c"}
Logger == [level : Word, sink : Word]

CommandLineOK ==
  /\ argv \in Seq(Argument_)
  /\ phase \in Phases /\ at \in Nat \ {0}
  /\ configuration \in Configuration /\ logger \in Logger

(* Databases are numbered like the files they created; the path leads to   *)
(* the newest file.                                                        *)
DatabasesOK(d) ==
  /\ d \in [managers : Seq(Manager), files : Seq(Nat), data : Nat]
  /\ Len(d.files) = Len(d.managers) /\ d.data = Len(d.files)
  /\ \A m \in 1 .. Len(d.managers) : d.managers[m].file = m

Owners == {run, workload, script}

(* Nobody shares a database, and who owns one depends on where main is.    *)
OwnersOK ==
  /\ Owners \subseteq 0 .. Len(db.managers)
  /\ run # 0 => run # workload /\ run # script
  /\ workload # 0 => workload # script
  /\ phase # "script" => script = 0
  /\ phase \in {"end_run", "ended"} => workload = 0
  /\ phase = "ended" => run = 0
  /\ phase \in {"logging", "settings"} => run = 0 /\ workload = 0
  /\ phase = "execute" => Executed # 0
  /\ ~configuration.run_workload => workload = 0

EndedOnce(d, owners) ==
  \A m \in 1 .. Len(d.managers) :
    d.managers[m].destroyed = IF m \in owners THEN 0 ELSE 1

(* Only the database that is executed has written anything yet.            *)
OthersAreEmpty ==
  \A m \in {run, workload} \ {0} :
    \/ db.managers[m].saved = 0
    \/ m = workload /\ phase \in {"execute", "exit"}
    \/ m = run /\ workload = 0 /\ phase \in {"execute", "exit", "end_run"}

Present(d) ==
  \A m \in 1 .. Len(d.managers) :
    d.managers[m].destroyed = 0 => d.files[m] >= d.managers[m].saved

SessionInv ==
  /\ CommandLineOK /\ DatabasesOK(db) /\ OwnersOK
  /\ EndedOnce(db, Owners) /\ OthersAreEmpty /\ Present(db)

-----------------------------------------------------------------------------
(* A new database has an empty file of its own; the others are untouched.  *)
LEMMA OpenedEffect ==
  ASSUME NEW d, DatabasesOK(d), NEW size \in Sizes, NEW cached, cached \in BOOLEAN,
         NEW cache_size \in Sizes
  PROVE  LET e == Opened(d, size, cached, cache_size)
             new == Len(d.managers) + 1
         IN  /\ DatabasesOK(e) /\ Len(e.managers) = new /\ Newest(e) = new
             /\ \A m \in 1 .. Len(d.managers) :
                  e.managers[m] = d.managers[m] /\ e.files[m] = d.files[m]
             /\ e.managers[new].saved = 0 /\ e.files[new] = 0
             /\ e.managers[new].destroyed = 0
             /\ e.managers[new].buffer_size = size /\ e.managers[new].cache = cached
             /\ e.managers[new].radix_tree_size = cache_size
PROOF
<1>. DEFINE new == Len(d.managers) + 1
            r == [buffer_size |-> size, cache |-> cached, radix_tree_size |-> cache_size,
                  file |-> new, saved |-> 0, destroyed |-> 0]
            e == Opened(d, size, cached, cache_size)
<1>1. /\ d.managers \in Seq(Manager) /\ d.files \in Seq(Nat) /\ new \in Nat
      /\ Len(d.files) = Len(d.managers)
  BY DEF DatabasesOK
<1>2. r \in Manager
  BY <1>1 DEF Manager
<1>3. e = [managers |-> Append(d.managers, r), files |-> Append(d.files, 0), data |-> new]
  BY <1>1 DEF Opened
<1>. HIDE DEF r, e
<1>4. /\ e.managers \in Seq(Manager) /\ Len(e.managers) = new
      /\ e.managers[new] = r /\ \A m \in 1 .. Len(d.managers) : e.managers[m] = d.managers[m]
  BY <1>1, <1>2, <1>3
<1>5. /\ e.files \in Seq(Nat) /\ Len(e.files) = new
      /\ e.files[new] = 0 /\ \A m \in 1 .. Len(d.managers) : e.files[m] = d.files[m]
  BY <1>1, <1>3
<1>6. DatabasesOK(e)
  BY <1>1, <1>3, <1>4, <1>5 DEF DatabasesOK, r
<1>. QED  BY <1>3, <1>4, <1>5, <1>6 DEF e, r, Newest

LEMMA ManagerFields ==
  ASSUME NEW r \in Manager
  PROVE  /\ [r EXCEPT !.saved = @ + 1] \in Manager
         /\ [r EXCEPT !.saved = @ + 1].file = r.file
         /\ [r EXCEPT !.saved = @ + 1].destroyed = r.destroyed
         /\ [r EXCEPT !.destroyed = @ + 1] \in Manager
         /\ [r EXCEPT !.destroyed = @ + 1].file = r.file
         /\ [r EXCEPT !.destroyed = @ + 1].destroyed = r.destroyed + 1
PROOF
  BY DEF Manager

LEMMA SavedEffect ==
  ASSUME NEW d, DatabasesOK(d), NEW m \in 1 .. Len(d.managers)
  PROVE  LET e == Saved(d, m) IN
         /\ DatabasesOK(e) /\ Len(e.managers) = Len(d.managers)
         /\ \A i \in 1 .. Len(d.managers) \ {m} :
              e.managers[i] = d.managers[i] /\ e.files[i] = d.files[i]
         /\ e.files[m] = d.files[m] + 1
         /\ e.managers[m] = [d.managers[m] EXCEPT !.saved = @ + 1]
PROOF
<1>. DEFINE e == Saved(d, m)
<1>1. /\ d.managers \in Seq(Manager) /\ d.files \in Seq(Nat)
      /\ Len(d.files) = Len(d.managers) /\ d.managers[m].file = m
      /\ d.data = Len(d.files)
  BY DEF DatabasesOK
<1>2. e = [managers |-> [d.managers EXCEPT ![m].saved = @ + 1],
           files |-> [d.files EXCEPT ![m] = @ + 1], data |-> d.data]
  <2>1. e = [d EXCEPT !.managers[m].saved = @ + 1, !.files[m] = @ + 1]
    BY <1>1 DEF Saved
  <2>2. d \in [managers : Seq(Manager), files : Seq(Nat), data : Nat]
    BY DEF DatabasesOK
  <2>. HIDE DEF e
  <2>. QED  BY <1>1, <2>1, <2>2
<1>3. d.managers[m] \in Manager /\ [d.managers[m] EXCEPT !.saved = @ + 1] \in Manager
  <2>1. d.managers[m] \in Manager
    BY <1>1
  <2>. QED  BY <2>1, ManagerFields
<1>. HIDE DEF e
<1>4. /\ e.managers \in Seq(Manager) /\ Len(e.managers) = Len(d.managers)
      /\ e.managers[m] = [d.managers[m] EXCEPT !.saved = @ + 1]
      /\ \A i \in 1 .. Len(d.managers) \ {m} : e.managers[i] = d.managers[i]
  BY <1>1, <1>2, <1>3
<1>5. /\ e.files \in Seq(Nat) /\ Len(e.files) = Len(d.managers)
      /\ e.files[m] = d.files[m] + 1
      /\ \A i \in 1 .. Len(d.managers) \ {m} : e.files[i] = d.files[i]
  BY <1>1, <1>2
<1>6. e.managers[m].file = m
  BY <1>1, <1>3, <1>4, ManagerFields
<1>7. DatabasesOK(e)
  BY <1>1, <1>2, <1>4, <1>5, <1>6 DEF DatabasesOK
<1>. QED  BY <1>4, <1>5, <1>7 DEF e

(* The end of a database truncates the newest file, whose ever it is.      *)
LEMMA DestroyedEffect ==
  ASSUME NEW d, DatabasesOK(d), NEW m \in 1 .. Len(d.managers)
  PROVE  LET e == Destroyed(d, m) IN
         /\ DatabasesOK(e) /\ Len(e.managers) = Len(d.managers)
         /\ \A i \in 1 .. Len(d.managers) \ {m} : e.managers[i] = d.managers[i]
         /\ \A i \in 1 .. Len(d.managers) \ {m, Len(d.managers)} : e.files[i] = d.files[i]
         /\ e.managers[m].destroyed = d.managers[m].destroyed + 1
         /\ e.files[Len(d.managers)] = 0
PROOF
<1>. DEFINE s == Saved(d, m)
            e == Destroyed(d, m)
            n == Len(d.managers)
<1>1. /\ DatabasesOK(s) /\ Len(s.managers) = n
      /\ \A i \in 1 .. n \ {m} : s.managers[i] = d.managers[i] /\ s.files[i] = d.files[i]
      /\ s.managers[m] = [d.managers[m] EXCEPT !.saved = @ + 1]
      /\ d.managers[m] \in Manager
  <2>. HIDE DEF s
  <2>1. d.managers[m] \in Manager
    BY DEF DatabasesOK
  <2>. QED  BY <2>1, SavedEffect DEF s
<1>2. /\ s.managers \in Seq(Manager) /\ s.files \in Seq(Nat) /\ n \in Nat
      /\ Len(s.files) = n /\ s.data = n /\ s.managers[m].file = m
      /\ s.managers[m].destroyed = d.managers[m].destroyed
      /\ d.data = n
  BY <1>1, ManagerFields DEF DatabasesOK
<1>3. e = [managers |-> [s.managers EXCEPT ![m].destroyed = @ + 1],
           files |-> [s.files EXCEPT ![n] = 0], data |-> n]
  <2>. HIDE DEF s, n
  <2>1. e = [s EXCEPT !.managers[m].destroyed = @ + 1, !.files[n] = 0]
    BY <1>2 DEF Destroyed, s
  <2>. QED  BY <1>1, <1>2, <2>1 DEF DatabasesOK
<1>4. s.managers[m] \in Manager /\ [s.managers[m] EXCEPT !.destroyed = @ + 1] \in Manager
  BY <1>1, <1>2, ManagerFields
<1>. HIDE DEF e, s
<1>5. /\ e.managers \in Seq(Manager) /\ Len(e.managers) = n
      /\ e.managers[m] = [s.managers[m] EXCEPT !.destroyed = @ + 1]
      /\ \A i \in 1 .. n \ {m} : e.managers[i] = s.managers[i]
  BY <1>1, <1>2, <1>3, <1>4
<1>6. /\ e.files \in Seq(Nat) /\ Len(e.files) = n /\ e.files[n] = 0
      /\ \A i \in 1 .. n \ {n} : e.files[i] = s.files[i]
  BY <1>2, <1>3
<1>7. /\ e.managers[m].file = m
      /\ e.managers[m].destroyed = d.managers[m].destroyed + 1
  BY <1>2, <1>4, <1>5, ManagerFields
<1>8. DatabasesOK(e)
  <2>1. \A i \in 1 .. Len(e.managers) : e.managers[i].file = i
    BY <1>1, <1>5, <1>7 DEF DatabasesOK
  <2>. QED  BY <1>3, <1>5, <1>6, <2>1 DEF DatabasesOK
<1>. QED  BY <1>1, <1>5, <1>6, <1>7, <1>8 DEF e
-----------------------------------------------------------------------------
LEMMA SessionInvInit == Init => SessionInv
PROOF
<1>. SUFFICES ASSUME Init  PROVE SessionInv
  OBVIOUS
<1>1. \A a \in Arguments : a \in Argument_
  BY SessionAssumption DEF Argument_
<1>2. argv \in Seq(Argument_)
  BY <1>1 DEF Init, SeqOf
<1>3. CommandLineOK
  <2>1. configuration \in Configuration /\ logger \in Logger
    BY DEF Init, Configuration, Logger, Word
  <2>. QED  BY <1>2, <2>1 DEF Init, CommandLineOK, Phases
<1>4. db = NoDatabase /\ Len(db.managers) = 0 /\ DatabasesOK(db)
  BY DEF Init, NoDatabase, DatabasesOK
<1>5. OwnersOK
  BY <1>4 DEF Init, OwnersOK, Owners
<1>6. EndedOnce(db, Owners) /\ OthersAreEmpty /\ Present(db)
  BY <1>4 DEF Init, EndedOnce, OthersAreEmpty, Present
<1>. QED  BY <1>3, <1>4, <1>5, <1>6 DEF SessionInv

(* What is read of the command line or decided about the phase leaves the  *)
(* databases alone.                                                        *)
LEMMA ReadingKeepsInv ==
  ASSUME SessionInv, CommandLineOK',
         UNCHANGED <<run, workload, script, db>>,
         \/ phase' \in {phase, "exit"}
         \/ phase' \in {"settings", "objects"} /\ phase # "objects",
         phase \in {"logging", "settings", "objects"},
         configuration'.run_workload \/ ~configuration.run_workload
  PROVE  SessionInv'
PROOF
<1>1. OwnersOK'
  BY DEF SessionInv, OwnersOK, Owners, Executed, CommandLineOK, Phases
<1>2. OthersAreEmpty'
  BY DEF SessionInv, OwnersOK, Owners, OthersAreEmpty
<1>. QED  BY <1>1, <1>2 DEF SessionInv, EndedOnce, Present, DatabasesOK, Owners

LEMMA ArgumentIsTyped ==
  ASSUME CommandLineOK, at <= Len(argv)
  PROVE  Argument \in Argument_
PROOF
  BY DEF CommandLineOK, Argument

LEMMA ConfigurationFields ==
  ASSUME NEW c \in Configuration
  PROVE  /\ [c EXCEPT !.benchmark = TRUE] \in Configuration
         /\ [c EXCEPT !.benchmark = TRUE].run_workload = c.run_workload
         /\ [c EXCEPT !.cache = TRUE] \in Configuration
         /\ [c EXCEPT !.cache = TRUE].run_workload = c.run_workload
         /\ [c EXCEPT !.run_workload = TRUE] \in Configuration
         /\ [c EXCEPT !.run_workload = TRUE].run_workload
         /\ [c EXCEPT !.run_workload = TRUE, !.script = TRUE] \in Configuration
         /\ [c EXCEPT !.run_workload = TRUE, !.script = TRUE].run_workload
         /\ c.buffer_size \in Nat /\ c.radix_tree_size \in Nat
         /\ c.cache \in BOOLEAN /\ c.run_workload \in BOOLEAN
         /\ [c EXCEPT !.cache = FALSE] \in Configuration
         /\ [c EXCEPT !.cache = FALSE].run_workload = c.run_workload
PROOF
  BY DEF Configuration

LEMMA ConfigurationSizes ==
  ASSUME NEW c \in Configuration, NEW n \in Nat
  PROVE  /\ [c EXCEPT !.buffer_size = n] \in Configuration
         /\ [c EXCEPT !.buffer_size = n].run_workload = c.run_workload
         /\ [c EXCEPT !.radix_tree_size = n] \in Configuration
         /\ [c EXCEPT !.radix_tree_size = n].run_workload = c.run_workload
PROOF
  BY DEF Configuration

LEMMA LoggerFields ==
  ASSUME NEW l \in Logger, NEW s \in Word
  PROVE  /\ [l EXCEPT !.level = s] \in Logger
         /\ [l EXCEPT !.sink = s] \in Logger
PROOF
  BY DEF Logger

LEMMA ReadingInv ==
  ASSUME SessionInv,
         Skip \/ LogBenchmark \/ LogVerbosity \/ LogMode \/ Setting \/ Help \/ EndPass
           \/ ChooseScript
  PROVE  SessionInv'
PROOF
<1>. USE DEF CommandLineOK
<1>0. CommandLineOK
  BY DEF SessionInv
<1>1. CASE Skip
  BY <1>0, <1>1, ReadingKeepsInv
  DEF Skip, Considered, NextArgument, objectVars, Phases
<1>2. CASE LogBenchmark
  <2>1. configuration' \in Configuration /\ logger' \in Logger
        /\ configuration'.run_workload = configuration.run_workload
    BY <1>0, <1>2, ConfigurationFields, LoggerFields DEF LogBenchmark, Word
  <2>. QED  BY <1>0, <1>2, <2>1, ReadingKeepsInv
       DEF LogBenchmark, NextArgument, objectVars, Reading
<1>3. CASE LogVerbosity
  <2>1. "text" \in DOMAIN Argument /\ Argument.text \in STRING
    BY <1>0, <1>3, ArgumentIsTyped DEF LogVerbosity, Reading, Argument_, Flags, Numbers
  <2>2. logger' \in Logger
    BY <1>0, <1>3, <2>1, LoggerFields DEF LogVerbosity, GiveUp, Word
  <2>. QED  BY <1>0, <1>3, <2>2, ReadingKeepsInv
       DEF LogVerbosity, NextArgument, objectVars, Reading, Phases, GiveUp
<1>4. CASE LogMode
  <2>1. "text" \in DOMAIN Argument /\ Argument.text \in STRING
    BY <1>0, <1>4, ArgumentIsTyped DEF LogMode, Reading, Argument_, Flags, Numbers
  <2>2. logger' \in Logger
    BY <1>0, <1>4, <2>1, LoggerFields DEF LogMode, GiveUp, Word
  <2>. QED  BY <1>0, <1>4, <2>2, ReadingKeepsInv
       DEF LogMode, NextArgument, objectVars, Reading, Phases, GiveUp
<1>5. CASE Setting
  <2>1. /\ Argument.option \in Numbers => Argument.number \in Nat
        /\ Argument.option \in Numbers \cup {"c"}
    BY <1>0, <1>5, ArgumentIsTyped DEF Setting, Reading, Argument_, Flags, Texts, Numbers
  <2>2. \/ configuration' = [configuration EXCEPT !.cache = TRUE]
        \/ configuration' = [configuration EXCEPT !.cache = FALSE]
        \/ \E n \in Nat : \/ configuration' = [configuration EXCEPT !.buffer_size = n]
                        \/ configuration' = [configuration EXCEPT !.radix_tree_size = n]
    <3>1. CASE Argument.option = "c"
      BY <1>5, <3>1 DEF Setting
    <3>2. CASE Argument.option = "cache" /\ Argument.number = 0
      BY <1>5, <3>2 DEF Setting
    <3>3. CASE Argument.option = "cache" /\ Argument.number # 0
      BY <1>5, <3>3 DEF Setting
    <3>4. CASE Argument.option \in {"buffer_size", "radix_tree_size"}
      BY <1>5, <2>1, <3>4 DEF Setting, Numbers
    <3>. QED  BY <2>1, <3>1, <3>2, <3>3, <3>4 DEF Numbers
  <2>3. configuration' \in Configuration
        /\ configuration'.run_workload = configuration.run_workload
    <3>0. configuration \in Configuration
      BY <1>0
    <3>1. CASE configuration' = [configuration EXCEPT !.cache = TRUE]
      BY <3>0, <3>1, ConfigurationFields
    <3>2. CASE configuration' = [configuration EXCEPT !.cache = FALSE]
      BY <3>0, <3>2, ConfigurationFields
    <3>3. ASSUME NEW n \in Nat,
                 \/ configuration' = [configuration EXCEPT !.buffer_size = n]
                 \/ configuration' = [configuration EXCEPT !.radix_tree_size = n]
          PROVE  configuration' \in Configuration
                 /\ configuration'.run_workload = configuration.run_workload
      BY <3>0, <3>3, ConfigurationSizes
    <3>. QED  BY <2>2, <3>1, <3>2, <3>3
  <2>. QED  BY <1>0, <1>5, <2>3, ReadingKeepsInv DEF Setting, NextArgument, objectVars, Reading
<1>6. CASE Help
  BY <1>0, <1>6, ReadingKeepsInv DEF Help, GiveUp, Reading, Phases
<1>7. CASE EndPass
  <2>1. logger' \in Logger
    BY <1>0, <1>7, LoggerFields DEF EndPass, Word
  <2>. QED  BY <1>0, <1>7, <2>1, ReadingKeepsInv DEF EndPass, objectVars, Phases
<1>8. CASE ChooseScript
  <2>1. configuration' \in Configuration /\ configuration'.run_workload
    BY <1>0, <1>8, ConfigurationFields DEF ChooseScript
  <2>. QED  BY <1>0, <1>8, <2>1, ReadingKeepsInv DEF ChooseScript, NextArgument, Reading
<1>. QED  BY <1>1, <1>2, <1>3, <1>4, <1>5, <1>6, <1>7, <1>8
-----------------------------------------------------------------------------
(* The databases e after main has opened one for the owner of old.         *)
Replaced(e, old, size, cached, cache_size) ==
  LET new == Len(db.managers) + 1 IN
  /\ DatabasesOK(e) /\ Len(e.managers) = new
  /\ EndedOnce(e, (Owners \ {old}) \cup {new})
  /\ Present(e)
  /\ \A m \in 1 .. Len(db.managers) \ {old} : e.managers[m] = db.managers[m]
  /\ e.managers[new].saved = 0
  /\ e.managers[new].buffer_size = size /\ e.managers[new].cache = cached
  /\ e.managers[new].radix_tree_size = cache_size

(* The new database is opened, then the old one is released: it ends once, *)
(* and the file that is truncated is the empty one of the new database.    *)
LEMMA ReplacedEffect ==
  ASSUME SessionInv, phase = "objects",
         NEW size, size \in Sizes, NEW cached, cached \in BOOLEAN,
         NEW cache_size, cache_size \in Sizes,
         NEW old, old \in {run, workload}
  PROVE  Replaced(Released(Opened(db, size, cached, cache_size), old), old,
                  size, cached, cache_size)
PROOF
<1>. DEFINE n == Len(db.managers)
            d == Opened(db, size, cached, cache_size)
            e == Released(d, old)
<1>. SUFFICES Replaced(e, old, size, cached, cache_size)
  OBVIOUS
<1>1. n \in Nat /\ Owners \subseteq 0 .. n /\ old \in Owners /\ DatabasesOK(db)
  BY DEF SessionInv, DatabasesOK, OwnersOK, Owners
<1>2. /\ DatabasesOK(d) /\ Len(d.managers) = n + 1 /\ Newest(d) = n + 1
      /\ \A m \in 1 .. n : d.managers[m] = db.managers[m] /\ d.files[m] = db.files[m]
      /\ d.managers[n + 1].saved = 0 /\ d.files[n + 1] = 0
      /\ d.managers[n + 1].destroyed = 0
      /\ d.managers[n + 1].buffer_size = size /\ d.managers[n + 1].cache = cached
      /\ d.managers[n + 1].radix_tree_size = cache_size
  BY <1>1, OpenedEffect
<1>. HIDE DEF d, e
<1>3. /\ \A m \in 1 .. n : d.managers[m].destroyed = IF m \in Owners THEN 0 ELSE 1
      /\ \A m \in 1 .. n : d.managers[m].destroyed = 0 => d.files[m] >= d.managers[m].saved
  BY <1>2 DEF SessionInv, EndedOnce, Present
<1>4. 1 .. (n + 1) = 1 .. n \cup {n + 1} /\ n + 1 \notin 0 .. n /\ n + 1 \in 1 .. (n + 1)
  BY <1>1
<1>. HIDE DEF n
<1>5. CASE old = 0
  <2>1. e = d
    BY <1>5 DEF Released, e
  <2>2. \A m \in 1 .. (n + 1) :
          d.managers[m].destroyed = IF m \in (Owners \ {old}) \cup {n + 1} THEN 0 ELSE 1
    BY <1>1, <1>2, <1>3, <1>4, <1>5
  <2>3. \A m \in 1 .. (n + 1) :
          d.managers[m].destroyed = 0 => d.files[m] >= d.managers[m].saved
    BY <1>1, <1>2, <1>3, <1>4
  <2>. QED  BY <1>1, <1>2, <2>1, <2>2, <2>3 DEF EndedOnce, Present, Replaced, n
<1>6. CASE old # 0
  <2>1. e = Destroyed(d, old) /\ old \in 1 .. n /\ old \in 1 .. (n + 1)
    BY <1>1, <1>6 DEF Released, e
  <2>2. /\ DatabasesOK(e) /\ Len(e.managers) = n + 1
        /\ \A m \in 1 .. (n + 1) \ {old} : e.managers[m] = d.managers[m]
        /\ \A m \in 1 .. (n + 1) \ {old, n + 1} : e.files[m] = d.files[m]
        /\ e.managers[old].destroyed = d.managers[old].destroyed + 1
        /\ e.files[n + 1] = 0
    BY <1>2, <2>1, DestroyedEffect
  <2>3. e.managers[old].destroyed = 1
    BY <1>1, <1>3, <2>1, <2>2
  <2>4. \A m \in 1 .. (n + 1) :
          e.managers[m].destroyed = IF m \in (Owners \ {old}) \cup {n + 1} THEN 0 ELSE 1
    BY <1>1, <1>2, <1>3, <1>4, <2>1, <2>2, <2>3
  <2>6. ASSUME NEW m \in 1 .. (n + 1), e.managers[m].destroyed = 0
        PROVE  e.files[m] >= e.managers[m].saved
    <3>1. m # old
      BY <2>3, <2>6
    <3>2. CASE m = n + 1
      BY <1>2, <2>2, <3>1, <3>2
    <3>3. CASE m # n + 1
      <4>1. m \in 1 .. n /\ d.managers[m].destroyed = 0
        BY <1>4, <2>2, <2>6, <3>1, <3>3
      <4>2. d.files[m] >= d.managers[m].saved
        BY <1>3, <4>1
      <4> QED
        BY <2>2, <2>6, <3>1, <3>3, <4>2
    <3> QED
      BY <3>2, <3>3
  <2>5. \A m \in 1 .. (n + 1) :
          e.managers[m].destroyed = 0 => e.files[m] >= e.managers[m].saved
    BY <2>6
  <2>. QED  BY <1>1, <1>2, <1>4, <2>1, <2>2, <2>4, <2>5 DEF EndedOnce, Present, Replaced, n
<1>. QED  BY <1>5, <1>6

LEMMA MakeRunInv ==
  ASSUME SessionInv, MakeRun
  PROVE  SessionInv'
PROOF
<1>1. /\ phase = "objects" /\ argv' = argv /\ at' \in {at, at + 1}
      /\ logger' = logger /\ configuration' = configuration
      /\ workload' = workload /\ script' = script
      /\ phase' = phase \/ phase' = "exit"
  BY DEF MakeRun, Reading, NextArgument, GiveUp
<1>0. CommandLineOK /\ CommandLineOK' /\ script = 0
  BY <1>1 DEF SessionInv, CommandLineOK, OwnersOK, Phases
<1>2. CASE UNCHANGED <<run, db>>
  BY <1>0, <1>1, <1>2, ReadingKeepsInv
<1>3. CASE /\ phase' = phase
           /\ db' = Released(Opened(db, Narrow(configuration.buffer_size), configuration.cache,
                                    Narrow(configuration.radix_tree_size)), run)
           /\ run' = Len(db.managers) + 1
  <2>1. /\ Narrow(configuration.buffer_size) \in Sizes
        /\ Narrow(configuration.radix_tree_size) \in Sizes
        /\ configuration.cache \in BOOLEAN
    <3>1. /\ configuration.buffer_size \in Nat /\ configuration.radix_tree_size \in Nat
          /\ configuration.cache \in BOOLEAN
      BY <1>0, ConfigurationFields DEF CommandLineOK
    <3>2. \A n \in Nat : Narrow(n) \in Sizes
      BY Zenon DEF Sizes
    <3>. QED  BY <3>1, <3>2
  <2>2. /\ DatabasesOK(db') /\ Len(db'.managers) = Len(db.managers) + 1
        /\ EndedOnce(db', (Owners \ {run}) \cup {run'})
        /\ Present(db')
        /\ \A m \in 1 .. Len(db.managers) \ {run} : db'.managers[m] = db.managers[m]
        /\ db'.managers[run'].saved = 0
    <3>. DEFINE size == Narrow(configuration.buffer_size)
                cached == configuration.cache
                cache_size == Narrow(configuration.radix_tree_size)
    <3>1. /\ size \in Sizes /\ cached \in BOOLEAN /\ cache_size \in Sizes
          /\ db' = Released(Opened(db, size, cached, cache_size), run)
      BY <1>3, <2>1
    <3>. HIDE DEF size, cached, cache_size
    <3>2. Replaced(db', run, size, cached, cache_size)
      BY <1>1, <3>1, ReplacedEffect
    <3>. QED  BY <1>3, <3>2 DEF Replaced
  <2>3. Len(db.managers) \in Nat /\ Owners \subseteq 0 .. Len(db.managers)
    BY DEF SessionInv, DatabasesOK, OwnersOK
  <2>4. OwnersOK' /\ run' \notin Owners
    BY <1>0, <1>1, <1>3, <2>2, <2>3 DEF SessionInv, OwnersOK, Owners
  <2>5. EndedOnce(db', Owners')
    <3>1. \A m \in 1 .. Len(db'.managers) :
            m \in (Owners \ {run}) \cup {run'} <=> m \in Owners'
      BY <1>0, <1>1, <1>3, <2>2, <2>3 DEF SessionInv, OwnersOK, Owners
    <3>. QED  BY <2>2, <3>1 DEF EndedOnce
  <2>6. OthersAreEmpty'
    BY <1>0, <1>1, <1>3, <2>2, <2>3 DEF SessionInv, OwnersOK, Owners, OthersAreEmpty
  <2>. QED  BY <1>0, <1>1, <2>2, <2>4, <2>5, <2>6 DEF SessionInv, EndedOnce, Present, DatabasesOK
<1>4. SessionInv /\ DatabasesOK(db)
  BY DEF SessionInv
<1>. QED
  <2>1. ASSUME NEW size, NEW cached, NEW cache_size
        PROVE  Newest(Opened(db, size, cached, cache_size)) = Len(db.managers) + 1
    BY <1>4 DEF Opened, Newest, DatabasesOK
  <2>. QED  BY <1>1, <1>2, <1>3, <2>1 DEF MakeRun, NextArgument, GiveUp

LEMMA MakeWorkloadInv ==
  ASSUME SessionInv, MakeWorkload
  PROVE  SessionInv'
PROOF
<1>1. phase = "objects" /\ argv' = argv /\ at' \in Nat \ {0}
      /\ logger' = logger /\ run' = run /\ script' = script
      /\ configuration' = [configuration EXCEPT !.run_workload = TRUE]
      /\ CommandLineOK /\ script = 0 /\ phase' = phase
  BY DEF MakeWorkload, Reading, NextArgument, SessionInv, CommandLineOK, OwnersOK
<1>2. configuration' \in Configuration /\ configuration'.run_workload /\ CommandLineOK'
  BY <1>1, ConfigurationFields DEF CommandLineOK
<1>3. CASE UNCHANGED <<workload, db>>
  BY <1>1, <1>2, <1>3, ReadingKeepsInv
<1>4. CASE /\ db' = Released(Opened(db, configuration.buffer_size, configuration.cache,
                                    configuration.radix_tree_size), workload)
           /\ workload' = Len(db.managers) + 1
  <2>1. /\ configuration.buffer_size \in Sizes
        /\ configuration.radix_tree_size \in Sizes
        /\ configuration.cache \in BOOLEAN
    BY <1>1, ConfigurationFields DEF CommandLineOK, Sizes
  <2>2. /\ DatabasesOK(db') /\ Len(db'.managers) = Len(db.managers) + 1
        /\ EndedOnce(db', (Owners \ {workload}) \cup {workload'})
        /\ Present(db')
        /\ \A m \in 1 .. Len(db.managers) \ {workload} : db'.managers[m] = db.managers[m]
        /\ db'.managers[workload'].saved = 0
    <3>. DEFINE size == configuration.buffer_size
                cached == configuration.cache
                cache_size == configuration.radix_tree_size
    <3>1. /\ size \in Sizes /\ cached \in BOOLEAN /\ cache_size \in Sizes
          /\ db' = Released(Opened(db, size, cached, cache_size), workload)
      BY <1>4, <2>1
    <3>. HIDE DEF size, cached, cache_size
    <3>2. Replaced(db', workload, size, cached, cache_size)
      BY <1>1, <3>1, ReplacedEffect
    <3>. QED  BY <1>4, <3>2 DEF Replaced
  <2>3. Len(db.managers) \in Nat /\ Owners \subseteq 0 .. Len(db.managers)
    BY DEF SessionInv, DatabasesOK, OwnersOK
  <2>4. OwnersOK'
    BY <1>1, <1>2, <1>4, <2>2, <2>3 DEF SessionInv, OwnersOK, Owners
  <2>5. EndedOnce(db', Owners')
    <3>1. \A m \in 1 .. Len(db'.managers) :
            m \in (Owners \ {workload}) \cup {workload'} <=> m \in Owners'
      BY <1>1, <1>4, <2>2, <2>3 DEF SessionInv, OwnersOK, Owners
    <3>. QED  BY <2>2, <3>1 DEF EndedOnce
  <2>6. OthersAreEmpty'
    BY <1>1, <1>4, <2>2, <2>3 DEF SessionInv, OwnersOK, Owners, OthersAreEmpty
  <2>. QED  BY <1>2, <2>2, <2>4, <2>5, <2>6 DEF SessionInv, EndedOnce, Present, DatabasesOK
<1>5. SessionInv /\ DatabasesOK(db)
  BY DEF SessionInv
<1>. QED
  <2>1. ASSUME NEW size, NEW cached, NEW cache_size
        PROVE  Newest(Opened(db, size, cached, cache_size)) = Len(db.managers) + 1
    BY <1>5 DEF Opened, Newest, DatabasesOK
  <2>. QED  BY <1>1, <1>3, <1>4, <2>1 DEF MakeWorkload
-----------------------------------------------------------------------------
(* The databases e after d without that of an owner, whose file the path   *)
(* may or may not lead to.                                                 *)
Ended(e, d, m, owners) ==
  /\ DatabasesOK(e) /\ Len(e.managers) = Len(d.managers)
  /\ EndedOnce(e, owners \ {m})
  /\ Present(e)
  /\ \A i \in 1 .. Len(d.managers) \ {m} : e.managers[i] = d.managers[i]

(* If the newest database is not the one that ends, it has lost nothing.   *)
LEMMA EndedEffect ==
  ASSUME NEW d, DatabasesOK(d), NEW owners, EndedOnce(d, owners), Present(d),
         NEW m, m \in 1 .. Len(d.managers), m \in owners,
         \/ Len(d.managers) \in owners \ {m} => d.managers[Len(d.managers)].saved = 0
  PROVE  Ended(Destroyed(d, m), d, m, owners)
PROOF
<1>. DEFINE n == Len(d.managers)
            e == Destroyed(d, m)
<1>. SUFFICES Ended(e, d, m, owners)
  OBVIOUS
<1>1. /\ DatabasesOK(e) /\ Len(e.managers) = n
      /\ \A i \in 1 .. n \ {m} : e.managers[i] = d.managers[i]
      /\ \A i \in 1 .. n \ {m, n} : e.files[i] = d.files[i]
      /\ e.managers[m].destroyed = d.managers[m].destroyed + 1
      /\ e.files[n] = 0
  BY DestroyedEffect
<1>. HIDE DEF e
<1>2. e.managers[m].destroyed = 1
  BY <1>1 DEF EndedOnce
<1>3. EndedOnce(e, owners \ {m})
  BY <1>1, <1>2 DEF EndedOnce
<1>4. Present(e)
  <2>. SUFFICES ASSUME NEW i \in 1 .. n, e.managers[i].destroyed = 0
                PROVE  e.files[i] >= e.managers[i].saved
    BY <1>1 DEF Present
  <2>1. i # m /\ i \in owners
    BY <1>2, <1>3, <1>1 DEF EndedOnce
  <2>2. CASE i = n
    BY <1>1, <2>1, <2>2
  <2>3. CASE i # n
    BY <1>1, <2>1, <2>3 DEF Present
  <2>. QED  BY <2>2, <2>3
<1>. QED  BY <1>1, <1>3, <1>4 DEF Ended

(* A database is opened and gets an owner. *)
Entered(e, d, owners) ==
  /\ DatabasesOK(e) /\ Len(e.managers) = Len(d.managers) + 1
  /\ Newest(e) = Len(e.managers)
  /\ EndedOnce(e, owners \cup {Len(d.managers) + 1})
  /\ Present(e)
  /\ e.managers[Len(e.managers)].saved = 0
  /\ \A i \in 1 .. Len(d.managers) : e.managers[i] = d.managers[i]

LEMMA EnteredEffect ==
  ASSUME NEW d, DatabasesOK(d), NEW owners, EndedOnce(d, owners), Present(d),
         owners \subseteq 0 .. Len(d.managers),
         NEW cached, cached \in BOOLEAN
  PROVE  Entered(Opened(d, 1, cached, 1), d, owners)
PROOF
<1>. DEFINE n == Len(d.managers)
            e == Opened(d, 1, cached, 1)
<1>. SUFFICES Entered(e, d, owners)
  OBVIOUS
<1>1. 1 \in Sizes /\ n \in Nat
  BY DEF Sizes, DatabasesOK
<1>2. /\ DatabasesOK(e) /\ Len(e.managers) = n + 1 /\ Newest(e) = n + 1
      /\ \A m \in 1 .. n : e.managers[m] = d.managers[m] /\ e.files[m] = d.files[m]
      /\ e.managers[n + 1].saved = 0 /\ e.files[n + 1] = 0
      /\ e.managers[n + 1].destroyed = 0
  BY <1>1, OpenedEffect
<1>. HIDE DEF e
<1>3. EndedOnce(e, owners \cup {n + 1})
  BY <1>1, <1>2 DEF EndedOnce
<1>4. Present(e)
  BY <1>1, <1>2 DEF Present
<1>. QED  BY <1>2, <1>3, <1>4 DEF Entered

LEMMA EndObjectsInv ==
  ASSUME SessionInv, EndObjects
  PROVE  SessionInv'
PROOF
<1>1. /\ phase = "objects" /\ script = 0
      /\ UNCHANGED <<argv, at, configuration, logger, run, workload, script>>
  BY DEF EndObjects, GiveUp, SessionInv, OwnersOK
<1>2. CASE phase' = "exit" /\ db' = db
  BY <1>1, <1>2, ReadingKeepsInv DEF SessionInv, CommandLineOK, Phases
<1>3. CASE /\ db' = db
           /\ LET object == IF configuration.run_workload THEN workload ELSE run
              IN  phase' = IF object = 0 THEN "crash" ELSE "execute"
  <2>1. CommandLineOK' /\ OwnersOK'
    BY <1>1, <1>3 DEF SessionInv, CommandLineOK, Phases, OwnersOK, Executed, Owners
  <2>2. OthersAreEmpty'
    BY <1>1, <1>3 DEF SessionInv, OwnersOK, OthersAreEmpty
  <2>. QED  BY <1>1, <1>3, <2>1, <2>2
       DEF SessionInv, EndedOnce, Present, DatabasesOK, Owners
<1>4. CASE /\ phase' = "script"
           /\ LET d == Opened(db, 1, FALSE, 1) IN db' = Destroyed(d, Newest(d))
  <2>. DEFINE n == Len(db.managers)
              d == Opened(db, 1, FALSE, 1)
  <2>1. /\ DatabasesOK(db) /\ EndedOnce(db, Owners) /\ Present(db)
        /\ Owners \subseteq 0 .. n /\ n \in Nat
    BY DEF SessionInv, OwnersOK, DatabasesOK
  <2>2. Entered(d, db, Owners)
    BY <2>1, EnteredEffect
  <2>3. db' = Destroyed(d, Newest(d))
    BY <1>4
  <2>. HIDE DEF d
  <2>4. /\ DatabasesOK(d) /\ EndedOnce(d, Owners \cup {n + 1}) /\ Present(d)
        /\ Newest(d) = n + 1 /\ Len(d.managers) = n + 1
        /\ \A i \in 1 .. n : d.managers[i] = db.managers[i]
    BY <2>2 DEF Entered
  <2>5. Ended(Destroyed(d, n + 1), d, n + 1, Owners \cup {n + 1})
    <3>1. n + 1 \in 1 .. Len(d.managers)
      BY <2>1, <2>4
    <3>. QED  BY <2>4, <3>1, EndedEffect
  <2>6. /\ DatabasesOK(db') /\ Len(db'.managers) = n + 1
        /\ EndedOnce(db', (Owners \cup {n + 1}) \ {n + 1})
        /\ Present(db')
        /\ \A i \in 1 .. n : db'.managers[i] = db.managers[i]
    BY <2>1, <2>3, <2>4, <2>5 DEF Ended
  <2>7. EndedOnce(db', Owners')
    <3>1. (Owners \cup {n + 1}) \ {n + 1} = Owners'
      BY <1>1, <2>1 DEF Owners
    <3>. QED  BY <2>6, <3>1
  <2>8. CommandLineOK' /\ OwnersOK'
    <3>1. CommandLineOK'
      BY <1>1, <1>4 DEF SessionInv, CommandLineOK, Phases
    <3>2. Owners' \subseteq 0 .. Len(db'.managers)
      BY <1>1, <2>1, <2>6 DEF Owners
    <3>3. OwnersOK
      BY DEF SessionInv
    <3>. QED  BY <1>1, <1>4, <3>1, <3>2, <3>3 DEF OwnersOK
  <2>9. OthersAreEmpty'
    <3>. SUFFICES ASSUME NEW m \in {run, workload} \ {0}
                  PROVE  db'.managers[m].saved = 0
      BY <1>1 DEF OthersAreEmpty
    <3>1. m \in 1 .. n /\ db.managers[m].saved = 0
      BY <1>1, <2>1 DEF SessionInv, OthersAreEmpty, Owners
    <3>. QED  BY <2>6, <3>1
  <2>. QED  BY <2>6, <2>7, <2>8, <2>9 DEF SessionInv
<1>. QED  BY <1>2, <1>3, <1>4 DEF EndObjects, GiveUp

LEMMA EvictInv ==
  ASSUME SessionInv, Evict
  PROVE  SessionInv'
PROOF
<1>. DEFINE n == Len(db.managers)
<1>1. /\ Executed \in Owners \ {0} /\ db' = Saved(db, Executed)
      /\ UNCHANGED <<argv, phase, at, configuration, logger, run, workload, script>>
  BY DEF Evict, Executed, Owners
<1>2. /\ DatabasesOK(db) /\ Owners \subseteq 0 .. n /\ n \in Nat
      /\ db.managers \in Seq(Manager)
  BY DEF SessionInv, OwnersOK, DatabasesOK
<1>3. Executed \in 1 .. n /\ db.managers[Executed] \in Manager
  BY <1>1, <1>2
<1>4. /\ DatabasesOK(db') /\ Len(db'.managers) = n
      /\ \A i \in 1 .. n \ {Executed} :
           db'.managers[i] = db.managers[i] /\ db'.files[i] = db.files[i]
      /\ db'.files[Executed] = db.files[Executed] + 1
      /\ db'.managers[Executed] = [db.managers[Executed] EXCEPT !.saved = @ + 1]
  BY <1>1, <1>2, <1>3, SavedEffect
<1>5. /\ db'.managers[Executed].destroyed = db.managers[Executed].destroyed
      /\ db'.managers[Executed].saved = db.managers[Executed].saved + 1
      /\ db.managers[Executed].saved \in Nat /\ db.files[Executed] \in Nat
  <2>. DEFINE r == db.managers[Executed]
  <2>1. r \in Manager
    BY <1>3
  <2>2. db'.managers[Executed] = [r EXCEPT !.saved = @ + 1]
    BY <1>4
  <2>3. db.files[Executed] \in Nat
    BY <1>3, <1>2 DEF DatabasesOK
  <2>. HIDE DEF r
  <2>4. /\ db'.managers[Executed].destroyed = r.destroyed
        /\ db'.managers[Executed].saved = r.saved + 1 /\ r.saved \in Nat
    BY <2>1, <2>2 DEF Manager
  <2>. QED  BY <2>3, <2>4 DEF r
<1>. DEFINE x == Executed
<1>6. EndedOnce(db', Owners') /\ Present(db')
  <2>1. /\ x \in 1 .. n /\ Owners' = Owners
        /\ \A i \in 1 .. n \ {x} : db'.managers[i] = db.managers[i] /\ db'.files[i] = db.files[i]
        /\ db'.managers[x].destroyed = db.managers[x].destroyed
        /\ db'.managers[x].saved = db.managers[x].saved + 1
        /\ db'.files[x] = db.files[x] + 1
        /\ db.managers[x].saved \in Nat /\ db.files[x] \in Nat
    BY <1>1, <1>3, <1>4, <1>5 DEF Owners
  <2>2. EndedOnce(db, Owners) /\ Present(db)
    BY DEF SessionInv
  <2>. HIDE DEF x, n
  <2>3. \A i \in 1 .. n : db'.managers[i].destroyed = db.managers[i].destroyed
    BY <2>1
  <2>4. ASSUME NEW i \in 1 .. n, db'.managers[i].destroyed = 0
        PROVE  db'.files[i] >= db'.managers[i].saved
    <3>1. db.files[i] >= db.managers[i].saved
      BY <2>2, <2>3, <2>4 DEF Present, n
    <3>2. CASE i = x
      BY <2>1, <3>1, <3>2
    <3>3. CASE i # x
      <4>1. db'.managers[i] = db.managers[i] /\ db'.files[i] = db.files[i]
        BY <2>1, <3>3
      <4>. QED  BY <3>1, <4>1
    <3>. QED  BY <3>2, <3>3
  <2>. QED  BY <1>4, <2>1, <2>2, <2>3, <2>4 DEF EndedOnce, Present, n
<1>7. OwnersOK' /\ CommandLineOK'
  BY <1>1, <1>4 DEF SessionInv, OwnersOK, CommandLineOK, Owners, Executed
<1>8. OthersAreEmpty'
  <2>1. CASE phase = "script"
    BY <1>1, <1>2, <1>4, <2>1 DEF SessionInv, OwnersOK, OthersAreEmpty, Owners, Executed
  <2>2. CASE phase = "execute"
    BY <1>1, <1>2, <1>4, <2>2 DEF SessionInv, OwnersOK, OthersAreEmpty, Owners, Executed
  <2>. QED  BY <1>1, <2>1, <2>2 DEF Executed
<1>. QED  BY <1>1, <1>4, <1>6, <1>7, <1>8 DEF SessionInv
LEMMA BeginRunInv ==
  ASSUME SessionInv, BeginRun
  PROVE  SessionInv'
PROOF
<1>. DEFINE n == Len(db.managers)
<1>1. /\ phase = "script" /\ script = 0 /\ script' = Newest(db')
      /\ db' = Opened(db, 1, TRUE, 1)
      /\ UNCHANGED <<argv, phase, at, configuration, logger, run, workload>>
  BY DEF BeginRun
<1>2. /\ DatabasesOK(db) /\ EndedOnce(db, Owners) /\ Present(db)
      /\ Owners \subseteq 0 .. n /\ n \in Nat
  BY DEF SessionInv, OwnersOK, DatabasesOK
<1>3. Entered(db', db, Owners)
  BY <1>1, <1>2, EnteredEffect
<1>4. /\ DatabasesOK(db') /\ EndedOnce(db', Owners \cup {n + 1}) /\ Present(db')
      /\ script' = n + 1 /\ Len(db'.managers) = n + 1
      /\ \A i \in 1 .. n : db'.managers[i] = db.managers[i]
  BY <1>1, <1>3 DEF Entered
<1>5. EndedOnce(db', Owners')
  <2>1. Owners' = {run, workload, n + 1} /\ Owners \cup {n + 1} = {run, workload, 0, n + 1}
    BY <1>1, <1>4 DEF Owners
  <2>. QED  BY <1>2, <1>4, <2>1 DEF EndedOnce
<1>6. OwnersOK'
  <2>1. Owners' \subseteq 0 .. Len(db'.managers) /\ script' \notin Owners
    <3>1. run \in 0 .. n /\ workload \in 0 .. n /\ script \in 0 .. n
      BY <1>2 DEF Owners
    <3>2. Owners' = {run, workload, n + 1} /\ Len(db'.managers) = n + 1 /\ script' = n + 1
      BY <1>1, <1>4 DEF Owners
    <3>3. n \in Nat
      BY <1>2
    <3>. HIDE DEF n
    <3>4. 0 .. n \subseteq 0 .. (n + 1) /\ n + 1 \in 0 .. (n + 1) /\ n + 1 \notin 0 .. n
      BY <3>3
    <3>5. Owners' \subseteq 0 .. Len(db'.managers)
      BY <3>1, <3>2, <3>4
    <3>. QED  BY <3>1, <3>2, <3>4, <3>5 DEF Owners
  <2>. QED  BY <1>1, <2>1 DEF SessionInv, OwnersOK, Owners
<1>7. OthersAreEmpty' /\ CommandLineOK'
  <2>1. OthersAreEmpty'
    <3>. SUFFICES ASSUME NEW m \in {run, workload} \ {0}
                  PROVE  db'.managers[m].saved = 0
      BY <1>1 DEF OthersAreEmpty
    <3>1. m \in 1 .. n /\ db.managers[m].saved = 0
      BY <1>1, <1>2 DEF SessionInv, OthersAreEmpty, Owners
    <3>. QED  BY <1>4, <3>1
  <2>. QED  BY <1>1, <2>1 DEF SessionInv, CommandLineOK
<1>. QED  BY <1>4, <1>5, <1>6, <1>7 DEF SessionInv

LEMMA EndRunInv ==
  ASSUME SessionInv, EndRun
  PROVE  SessionInv'
PROOF
<1>. DEFINE n == Len(db.managers)
<1>1. /\ phase = "script" /\ script # 0 /\ script' = 0
      /\ db' = Destroyed(db, script)
      /\ UNCHANGED <<argv, phase, at, configuration, logger, run, workload>>
  BY DEF EndRun
<1>2. /\ DatabasesOK(db) /\ EndedOnce(db, Owners) /\ Present(db)
      /\ Owners \subseteq 0 .. n /\ n \in Nat /\ script \in 1 .. n /\ script \in Owners
  BY <1>1 DEF SessionInv, OwnersOK, DatabasesOK, Owners
<1>3. n \in Owners \ {script} => db.managers[n].saved = 0
  BY <1>1, <1>2 DEF SessionInv, OthersAreEmpty, Owners
<1>4. Ended(db', db, script, Owners)
  BY <1>1, <1>2, <1>3, EndedEffect
<1>5. /\ DatabasesOK(db') /\ EndedOnce(db', Owners \ {script}) /\ Present(db')
      /\ Len(db'.managers) = n
      /\ \A i \in 1 .. n \ {script} : db'.managers[i] = db.managers[i]
  BY <1>4 DEF Ended
<1>6. EndedOnce(db', Owners')
  <2>1. \A m \in 1 .. n : m \in Owners' <=> m \in Owners \ {script}
    BY <1>1, <1>2 DEF Owners, SessionInv, OwnersOK
  <2>. QED  BY <1>5, <2>1 DEF EndedOnce
<1>7. OwnersOK'
  <2>1. Owners' \subseteq 0 .. Len(db'.managers)
    BY <1>1, <1>2, <1>5 DEF Owners
  <2>. QED  BY <1>1, <2>1 DEF SessionInv, OwnersOK
<1>8. OthersAreEmpty' /\ CommandLineOK'
  <2>1. OthersAreEmpty'
    <3>. SUFFICES ASSUME NEW m \in {run, workload} \ {0}
                  PROVE  db'.managers[m].saved = 0
      BY <1>1 DEF OthersAreEmpty
    <3>1. m \in 1 .. n \ {script} /\ db.managers[m].saved = 0
      BY <1>1, <1>2 DEF SessionInv, OwnersOK, OthersAreEmpty, Owners
    <3>. QED  BY <1>5, <3>1
  <2>. QED  BY <1>1, <2>1 DEF SessionInv, CommandLineOK
<1>. QED  BY <1>5, <1>6, <1>7, <1>8 DEF SessionInv

LEMMA EndWorkloadInv ==
  ASSUME SessionInv, EndWorkload
  PROVE  SessionInv'
PROOF
<1>. DEFINE n == Len(db.managers)
<1>1. /\ phase = "exit" /\ phase' = "end_run" /\ script = 0 /\ workload' = 0
      /\ db' = Released(db, workload)
      /\ UNCHANGED <<argv, at, configuration, logger, run, script>>
  BY DEF EndWorkload, SessionInv, OwnersOK
<1>2. /\ DatabasesOK(db) /\ EndedOnce(db, Owners) /\ Present(db)
      /\ Owners \subseteq 0 .. n /\ n \in Nat /\ workload \in Owners
  BY DEF SessionInv, OwnersOK, DatabasesOK, Owners
<1>3. CommandLineOK'
  BY <1>1 DEF SessionInv, CommandLineOK, Phases
<1>4. CASE workload = 0
  <2>1. db' = db
    BY <1>1, <1>4 DEF Released
  <2>2. OwnersOK' /\ Owners' = Owners
    BY <1>1, <1>2, <1>4, <2>1 DEF SessionInv, OwnersOK, Owners
  <2>3. OthersAreEmpty'
    BY <1>1, <1>4, <2>1 DEF SessionInv, OthersAreEmpty
  <2>. QED  BY <1>2, <1>3, <2>1, <2>2, <2>3 DEF SessionInv
<1>5. CASE workload # 0
  <2>1. db' = Destroyed(db, workload) /\ workload \in 1 .. n
    BY <1>1, <1>2, <1>5 DEF Released
  <2>2. run # 0 => db.managers[run].saved = 0 /\ run # workload
    BY <1>1, <1>5 DEF SessionInv, OthersAreEmpty, OwnersOK
  <2>3. Ended(db', db, workload, Owners)
    <3>1. n \in Owners \ {workload} => db.managers[n].saved = 0
      BY <1>1, <1>2, <2>1, <2>2 DEF Owners
    <3>. QED  BY <1>2, <2>1, <3>1, EndedEffect
  <2>4. /\ DatabasesOK(db') /\ EndedOnce(db', Owners \ {workload}) /\ Present(db')
        /\ Len(db'.managers) = n
        /\ \A i \in 1 .. n \ {workload} : db'.managers[i] = db.managers[i]
    BY <2>3 DEF Ended
  <2>5. EndedOnce(db', Owners')
    <3>1. \A m \in 1 .. n : m \in Owners' <=> m \in Owners \ {workload}
      BY <1>1, <1>2, <2>2 DEF Owners
    <3>. QED  BY <2>4, <3>1 DEF EndedOnce
  <2>6. OwnersOK'
    <3>1. Owners' \subseteq 0 .. Len(db'.managers)
      BY <1>1, <1>2, <2>4 DEF Owners
    <3>. QED  BY <1>1, <2>2, <3>1 DEF SessionInv, OwnersOK
  <2>7. OthersAreEmpty'
    BY <1>1, <1>2, <2>2, <2>4 DEF OthersAreEmpty, Owners
  <2>. QED  BY <1>3, <2>4, <2>5, <2>6, <2>7 DEF SessionInv
<1>. QED  BY <1>4, <1>5

LEMMA EndRunConfigInv ==
  ASSUME SessionInv, EndRunConfig
  PROVE  SessionInv'
PROOF
<1>. DEFINE n == Len(db.managers)
<1>1. /\ phase = "end_run" /\ phase' = "ended" /\ run' = 0
      /\ script = 0 /\ workload = 0
      /\ db' = Released(db, run)
      /\ UNCHANGED <<argv, at, configuration, logger, workload, script>>
  BY DEF EndRunConfig, SessionInv, OwnersOK
<1>2. /\ DatabasesOK(db) /\ EndedOnce(db, Owners) /\ Present(db)
      /\ Owners \subseteq 0 .. n /\ n \in Nat /\ run \in Owners
  BY DEF SessionInv, OwnersOK, DatabasesOK, Owners
<1>3. CommandLineOK' /\ OthersAreEmpty'
  BY <1>1 DEF SessionInv, CommandLineOK, Phases, OthersAreEmpty
<1>4. CASE run = 0
  <2>1. db' = db
    BY <1>1, <1>4 DEF Released
  <2>2. OwnersOK' /\ Owners' = Owners
    BY <1>1, <1>2, <1>4, <2>1 DEF SessionInv, OwnersOK, Owners
  <2>. QED  BY <1>2, <1>3, <2>1, <2>2 DEF SessionInv
<1>5. CASE run # 0
  <2>1. db' = Destroyed(db, run) /\ run \in 1 .. n
    BY <1>1, <1>2, <1>5 DEF Released
  <2>2. Ended(db', db, run, Owners)
    <3>1. n \notin Owners \ {run}
      BY <1>1, <1>2, <2>1 DEF Owners
    <3>. QED  BY <1>2, <2>1, <3>1, EndedEffect
  <2>3. /\ DatabasesOK(db') /\ EndedOnce(db', Owners \ {run}) /\ Present(db')
        /\ Len(db'.managers) = n
    BY <2>2 DEF Ended
  <2>4. EndedOnce(db', Owners')
    <3>1. \A m \in 1 .. n : m \in Owners' <=> m \in Owners \ {run}
      BY <1>1, <1>2, <1>5 DEF Owners
    <3>. QED  BY <2>3, <3>1 DEF EndedOnce
  <2>5. OwnersOK'
    <3>1. Owners' \subseteq 0 .. Len(db'.managers)
      BY <1>1, <1>2, <2>3 DEF Owners
    <3>. QED  BY <1>1, <3>1 DEF SessionInv, OwnersOK
  <2>. QED  BY <1>3, <2>3, <2>4, <2>5 DEF SessionInv
<1>. QED  BY <1>4, <1>5

LEMMA SessionInvNext == SessionInv /\ [Next]_vars => SessionInv'
PROOF
<1>. SUFFICES ASSUME SessionInv, [Next]_vars  PROVE SessionInv'
  OBVIOUS
<1>1. ASSUME EndExecution \/ EndScript
      PROVE  SessionInv'
  <2>1. /\ phase \in {"execute", "script"} /\ phase' = "exit" /\ script = 0
        /\ UNCHANGED <<argv, at, configuration, logger, run, workload, script, db>>
    BY <1>1 DEF EndExecution, EndScript, SessionInv, OwnersOK
  <2>2. CommandLineOK' /\ OwnersOK' /\ OthersAreEmpty'
    BY <2>1 DEF SessionInv, CommandLineOK, Phases, OwnersOK, Owners, OthersAreEmpty
  <2>. QED  BY <2>1, <2>2 DEF SessionInv, Owners
<1>2. ASSUME UNCHANGED vars
      PROVE  SessionInv'
  <2>1. CommandLineOK' /\ OwnersOK' /\ OthersAreEmpty' /\ Owners' = Owners /\ db' = db
    BY <1>2 DEF vars, SessionInv, CommandLineOK, OwnersOK, Owners, OthersAreEmpty, Executed
  <2>. QED  BY <2>1 DEF SessionInv
<1>. QED
  BY <1>1, <1>2, ReadingInv, MakeRunInv, MakeWorkloadInv, EndObjectsInv, EvictInv,
     BeginRunInv, EndRunInv, EndWorkloadInv, EndRunConfigInv
  DEF Next

(* Every database the command line makes the program open is destroyed,    *)
(* and once only, whatever it replaces, executes or leaves by exit(1): the *)
(* owners are a run, a workload and a script (main.cc, workloads_script.h).*)
THEOREM EveryDatabaseEndsOnce == Spec => []DatabasesEndOnce
PROOF
<1>1. SessionInv => DatabasesEndOnce
  <2>. SUFFICES ASSUME SessionInv  PROVE DatabasesEndOnce
    OBVIOUS
  <2>1. DOMAIN db.managers = 1 .. Len(db.managers)
    BY DEF SessionInv, DatabasesOK
  <2>2. Executed # 0 => Executed \in Owners /\ Executed \in 1 .. Len(db.managers)
    <3>1. Executed \in Owners \cup {0}
      BY DEF Executed, Owners
    <3>2. Owners \subseteq 0 .. Len(db.managers) /\ Len(db.managers) \in Nat
      BY DEF SessionInv, OwnersOK, DatabasesOK
    <3>. QED  BY <3>1, <3>2
  <2>. QED  BY <2>1, <2>2 DEF SessionInv, EndedOnce, DatabasesEndOnce, Owners
<1>. QED  BY <1>1, SessionInvInit, SessionInvNext, PTL DEF Spec

(* A database that lives finds all pages it has written, although the path *)
(* of its file is that of every other one, and their ends truncate it.     *)
THEOREM PagesOfTheLivingStay == Spec => []SavedPagesArePresent
PROOF
<1>1. SessionInv => SavedPagesArePresent
  BY DEF SessionInv, DatabasesOK, Present, SavedPagesArePresent
<1>. QED  BY <1>1, SessionInvInit, SessionInvNext, PTL DEF Spec
-----------------------------------------------------------------------------
(* What the arguments before the nth say of an option. *)
Value(a) == IF "number" \in DOMAIN a THEN a.number ELSE 1
Latest(places) == CHOOSE i \in places : \A j \in places : j <= i
GivenBy(args, places, default) ==
  IF places = {} THEN default ELSE Value(args[Latest(places)])
GivenBefore(args, n, options, default) ==
  GivenBy(args, {i \in DOMAIN args : i < n /\ args[i].option \in options}, default)

(* No setting exceeds an int: neither the defaults nor a given number.     *)
NumbersFitAnInt ==
  /\ Narrow(5) = 5 /\ Narrow(3) = 3
  /\ \A a \in Arguments : a.option \in Numbers => Narrow(a.number) = a.number

LEMMA GivenBeforeAll ==
  ASSUME argv \in Seq(Argument_), NEW options, NEW default
  PROVE  GivenBefore(argv, Len(argv) + 1, options, default) = Given(options, default)
PROOF
<1>1. {i \in DOMAIN argv : i < Len(argv) + 1 /\ argv[i].option \in options}
        = {i \in DOMAIN argv : argv[i].option \in options}
  OBVIOUS
<1>2. GivenBefore(argv, Len(argv) + 1, options, default)
        = GivenBy(argv, {i \in DOMAIN argv : argv[i].option \in options}, default)
  BY <1>1 DEF GivenBefore
<1>. QED  BY <1>2 DEF GivenBy, Latest, Given, Value

LEMMA GivenBeforeNone ==
  ASSUME NEW args, args \in Seq(Argument_), NEW options, NEW default
  PROVE  GivenBefore(args, 1, options, default) = default
PROOF
<1>1. {i \in DOMAIN args : i < 1 /\ args[i].option \in options} = {}
  OBVIOUS
<1>. QED  BY <1>1 DEF GivenBefore, GivenBy

LEMMA GivenBeforeNext ==
  ASSUME NEW args, args \in Seq(Argument_), NEW n \in 1 .. Len(args), NEW options, NEW default
  PROVE  GivenBefore(args, n + 1, options, default)
           = IF args[n].option \in options THEN Value(args[n])
             ELSE GivenBefore(args, n, options, default)
PROOF
<1>. DEFINE Places(k) == {i \in DOMAIN args : i < k /\ args[i].option \in options}
<1>1. CASE args[n].option \in options
  <2>1. n \in Places(n + 1) /\ \A j \in Places(n + 1) : j <= n
    BY <1>1
  <2>2. \A i \in Places(n + 1) : i \in Nat
    OBVIOUS
  <2>3. Latest(Places(n + 1)) = n
    <3>. HIDE DEF Places
    <3>1. /\ Latest(Places(n + 1)) \in Places(n + 1)
          /\ \A j \in Places(n + 1) : j <= Latest(Places(n + 1))
      BY <2>1, Zenon DEF Latest
    <3>. QED  BY <2>1, <2>2, <3>1
  <2>4. Places(n + 1) # {}
    BY <2>1
  <2>. QED
    <3>1. GivenBefore(args, n + 1, options, default) = GivenBy(args, Places(n + 1), default)
      BY DEF GivenBefore
    <3>. HIDE DEF Places
    <3>. QED  BY <1>1, <2>3, <2>4, <3>1 DEF GivenBy
<1>2. CASE args[n].option \notin options
  <2>1. Places(n + 1) = Places(n)
    BY <1>2
  <2>2. /\ GivenBefore(args, n + 1, options, default) = GivenBy(args, Places(n + 1), default)
        /\ GivenBefore(args, n, options, default) = GivenBy(args, Places(n), default)
    BY DEF GivenBefore
  <2>. HIDE DEF Places
  <2>. QED  BY <1>2, <2>1, <2>2
<1>. QED  BY <1>1, <1>2

-----------------------------------------------------------------------------
BenchmarkBefore(args, n) == \E i \in DOMAIN args : i < n /\ args[i].option = "benchmark"

(* The settings are those of the arguments before the nth. *)
SettingsRead(c, args, n) ==
  /\ c.buffer_size = GivenBefore(args, n, {"buffer_size"}, 5)
  /\ c.radix_tree_size = GivenBefore(args, n, {"radix_tree_size"}, 3)
  /\ c.cache = (GivenBefore(args, n, {"c", "cache"}, 0) # 0)

LoggingRead ==
  /\ phase = "logging" =>
       /\ configuration.benchmark <=> BenchmarkBefore(argv, at)
       /\ configuration.benchmark => logger.level = "off"
  /\ phase \in {"settings", "objects", "execute"} /\ BenchmarkBefore(argv, Len(argv) + 1) =>
       logger = [level |-> "off", sink |-> "c"]

ConfigurationRead ==
  /\ phase = "logging" => SettingsRead(configuration, argv, 1)
  /\ phase = "settings" => SettingsRead(configuration, argv, at)
  /\ phase \in {"objects", "execute"} => SettingsRead(configuration, argv, Len(argv) + 1)

HasSettings(m, c) ==
  /\ m.buffer_size = c.buffer_size /\ m.radix_tree_size = c.radix_tree_size
  /\ m.cache = c.cache

ObjectsObey ==
  phase \in {"objects", "execute"} =>
    \A m \in {run, workload} \ {0} : HasSettings(db.managers[m], configuration)

OptionsInv ==
  /\ SessionInv
  /\ argv \in Seq(Arguments) /\ at <= Len(argv) + 1
  /\ Narrow(configuration.buffer_size) = configuration.buffer_size
  /\ Narrow(configuration.radix_tree_size) = configuration.radix_tree_size
  /\ LoggingRead /\ ConfigurationRead /\ ObjectsObey

LEMMA BenchmarkBeforeNext ==
  ASSUME NEW args, args \in Seq(Argument_), NEW n, n \in 1 .. Len(args)
  PROVE  BenchmarkBefore(args, n + 1)
           <=> BenchmarkBefore(args, n) \/ args[n].option = "benchmark"
PROOF
  BY DEF BenchmarkBefore

(* An argument that a pass does not consider changes no setting.           *)
LEMMA SettingsReadNext ==
  ASSUME NEW args, args \in Seq(Argument_), NEW n, n \in 1 .. Len(args),
         NEW c, SettingsRead(c, args, n),
         args[n].option \notin {"buffer_size", "radix_tree_size", "c", "cache"}
  PROVE  SettingsRead(c, args, n + 1)
PROOF
<1>1. /\ GivenBefore(args, n + 1, {"buffer_size"}, 5)
           = GivenBefore(args, n, {"buffer_size"}, 5)
      /\ GivenBefore(args, n + 1, {"radix_tree_size"}, 3)
           = GivenBefore(args, n, {"radix_tree_size"}, 3)
      /\ GivenBefore(args, n + 1, {"c", "cache"}, 0) = GivenBefore(args, n, {"c", "cache"}, 0)
  BY GivenBeforeNext
<1>. QED  BY <1>1 DEF SettingsRead

LEMMA OptionsInvInit == ASSUME NumbersFitAnInt  PROVE Init => OptionsInv
PROOF
<1>. SUFFICES ASSUME Init  PROVE OptionsInv
  OBVIOUS
<1>1. SessionInv
  BY SessionInvInit
<1>2. argv \in Seq(Arguments) /\ argv \in Seq(Argument_) /\ at <= Len(argv) + 1
  BY <1>1 DEF Init, SeqOf, SessionInv, CommandLineOK
<1>3. LoggingRead
  BY <1>2 DEF Init, LoggingRead, BenchmarkBefore
<1>4. ConfigurationRead
  BY <1>2, GivenBeforeNone DEF Init, ConfigurationRead, SettingsRead
<1>5. ObjectsObey
  BY DEF Init, ObjectsObey
<1>. QED  BY <1>1, <1>2, <1>3, <1>4, <1>5 DEF Init, OptionsInv, NumbersFitAnInt

(* One argument further in a pass that changes no setting by it. *)
LEMMA ReadingKeepsOptions ==
  ASSUME OptionsInv, SessionInv',
         Skip \/ LogBenchmark \/ LogVerbosity \/ LogMode \/ Help \/ EndPass \/ ChooseScript
  PROVE  OptionsInv'
PROOF
<1>1. /\ SessionInv /\ argv \in Seq(Argument_) /\ configuration \in Configuration
      /\ logger \in Logger /\ at \in Nat \ {0} /\ at <= Len(argv) + 1
      /\ argv \in Seq(Arguments)
  BY DEF OptionsInv, SessionInv, CommandLineOK
<1>2. LoggingRead /\ ConfigurationRead /\ ObjectsObey
  BY DEF OptionsInv
<1>3. CASE GiveUp
  BY <1>1, <1>2, <1>3
  DEF GiveUp, OptionsInv, LoggingRead, ConfigurationRead, ObjectsObey
<1>4. CASE Skip
  <2>1. /\ at \in 1 .. Len(argv) /\ at' = at + 1
        /\ phase \in {"logging", "settings", "objects"}
        /\ argv[at].option \notin Considered[phase]
        /\ UNCHANGED <<argv, phase, configuration, logger, run, workload, db>>
    BY <1>1, <1>4 DEF Skip, Reading, NextArgument, Argument, objectVars, Considered
  <2>2. LoggingRead'
    <3>1. phase = "logging" => argv[at].option # "benchmark"
      BY <2>1 DEF Considered
    <3>2. phase = "logging" => (BenchmarkBefore(argv, at + 1) <=> BenchmarkBefore(argv, at))
      BY <1>1, <2>1, <3>1, BenchmarkBeforeNext
    <3>. QED  BY <1>2, <2>1, <3>2 DEF LoggingRead
  <2>3. ConfigurationRead'
    <3>1. CASE phase = "settings"
      <4>1. SettingsRead(configuration, argv, at + 1)
        BY <1>1, <1>2, <2>1, <3>1, SettingsReadNext DEF Considered, ConfigurationRead
      <4>. QED  BY <2>1, <3>1, <4>1 DEF ConfigurationRead
    <3>. QED  BY <1>2, <2>1, <3>1 DEF ConfigurationRead
  <2>. QED  BY <1>1, <1>2, <2>1, <2>2, <2>3 DEF OptionsInv, ObjectsObey
<1>5. CASE LogBenchmark
  <2>1. /\ at \in 1 .. Len(argv) /\ at' = at + 1 /\ phase = "logging"
        /\ argv[at].option = "benchmark"
        /\ logger' = [logger EXCEPT !.level = "off"]
        /\ configuration' = [configuration EXCEPT !.benchmark = TRUE]
        /\ UNCHANGED <<argv, phase, run, workload, db>>
    BY <1>1, <1>5 DEF LogBenchmark, Reading, NextArgument, Argument, objectVars
  <2>2. /\ configuration'.benchmark /\ logger'.level = "off"
        /\ configuration'.buffer_size = configuration.buffer_size
        /\ configuration'.radix_tree_size = configuration.radix_tree_size
        /\ configuration'.cache = configuration.cache
    BY <1>1, <2>1 DEF Configuration, Logger
  <2>3. LoggingRead'
    BY <1>1, <2>1, <2>2, BenchmarkBeforeNext DEF LoggingRead
  <2>. QED  BY <1>1, <1>2, <2>1, <2>2, <2>3
       DEF OptionsInv, ConfigurationRead, SettingsRead, ObjectsObey
<1>6. CASE (LogVerbosity \/ LogMode) /\ ~GiveUp
  <2>1. /\ at \in 1 .. Len(argv) /\ at' = at + 1 /\ phase = "logging"
        /\ argv[at].option # "benchmark"
        /\ configuration.benchmark => logger'.level = logger.level
        /\ UNCHANGED <<argv, phase, configuration, run, workload, db>>
    BY <1>1, <1>6
    DEF LogVerbosity, LogMode, Reading, NextArgument, Argument, objectVars, Logger
  <2>2. LoggingRead'
    BY <1>1, <1>2, <2>1, BenchmarkBeforeNext DEF LoggingRead
  <2>. QED  BY <1>1, <1>2, <2>1, <2>2 DEF OptionsInv, ConfigurationRead, ObjectsObey
<1>7. CASE EndPass
  <2>1. /\ at = Len(argv) + 1 /\ at' = 1 /\ phase \in {"logging", "settings"}
        /\ phase' = IF phase = "logging" THEN "settings" ELSE "objects"
        /\ phase = "logging" /\ logger.level = "off" => logger' = [logger EXCEPT !.sink = "c"]
        /\ phase = "settings" => logger' = logger
        /\ UNCHANGED <<argv, configuration, run, workload, db>>
    BY <1>1, <1>7 DEF EndPass, objectVars
  <2>2. LoggingRead'
    <3>1. CASE phase = "logging"
      <4>1. logger.level = "off" => logger' = [level |-> "off", sink |-> "c"]
        BY <1>1, <2>1, <3>1 DEF Logger
      <4>. QED  BY <1>2, <2>1, <3>1, <4>1 DEF LoggingRead
    <3>2. CASE phase = "settings"
      BY <1>2, <2>1, <3>2 DEF LoggingRead
    <3>. QED  BY <2>1, <3>1, <3>2
  <2>3. ConfigurationRead'
    BY <1>2, <2>1 DEF ConfigurationRead
  <2>4. ObjectsObey'
    <3>. SUFFICES ASSUME phase' = "objects"  PROVE run = 0 /\ workload = 0
      BY <2>1 DEF ObjectsObey
    <3>. QED  BY <2>1 DEF OptionsInv, SessionInv, OwnersOK
  <2>. QED  BY <1>1, <1>2, <2>1, <2>2, <2>3, <2>4 DEF OptionsInv
<1>8. CASE ChooseScript
  <2>1. /\ at \in 1 .. Len(argv) /\ at' = at + 1 /\ phase = "objects"
        /\ configuration' = [configuration EXCEPT !.run_workload = TRUE, !.script = TRUE]
        /\ UNCHANGED <<argv, phase, logger, run, workload, db>>
    BY <1>1, <1>8 DEF ChooseScript, Reading, NextArgument
  <2>2. /\ configuration'.buffer_size = configuration.buffer_size
        /\ configuration'.radix_tree_size = configuration.radix_tree_size
        /\ configuration'.cache = configuration.cache
    BY <1>1, <2>1 DEF Configuration
  <2>. QED  BY <1>1, <1>2, <2>1, <2>2
       DEF OptionsInv, LoggingRead, ConfigurationRead, SettingsRead, ObjectsObey, HasSettings
<1>. QED  BY <1>3, <1>4, <1>5, <1>6, <1>7, <1>8 DEF Help, LogVerbosity, LogMode

(* Each setting takes the number of the last option of its name.           *)
LEMMA SettingKeepsOptions ==
  ASSUME NumbersFitAnInt, OptionsInv, SessionInv', Setting
  PROVE  OptionsInv'
PROOF
<1>1. /\ argv \in Seq(Argument_) /\ argv \in Seq(Arguments)
      /\ configuration \in Configuration /\ at \in 1 .. Len(argv) /\ at' = at + 1
      /\ phase = "settings"
      /\ UNCHANGED <<argv, phase, logger, run, workload, db>>
  BY DEF OptionsInv, SessionInv, CommandLineOK, Setting, Reading, NextArgument, objectVars
<1>2. SettingsRead(configuration, argv, at)
  BY <1>1 DEF OptionsInv, ConfigurationRead
<1>. DEFINE a == argv[at]
<1>3. a \in Argument_ /\ a \in Arguments /\ a.option \in Numbers \cup {"c"}
  BY <1>1 DEF Setting, Reading, Argument
<1>4. /\ a.option \in Numbers => Value(a) = a.number /\ a.number \in Nat
                                /\ Narrow(a.number) = a.number
      /\ a.option = "c" => Value(a) = 1
  BY <1>3, NumbersFitAnInt DEF Argument_, Value, Numbers, Texts, Flags, NumbersFitAnInt
<1>5. /\ a.option = "c" => configuration' = [configuration EXCEPT !.cache = TRUE]
      /\ a.option = "cache" => configuration' = [configuration EXCEPT !.cache = (a.number # 0)]
      /\ a.option = "buffer_size" =>
           configuration' = [configuration EXCEPT !.buffer_size = a.number]
      /\ a.option = "radix_tree_size" =>
           configuration' = [configuration EXCEPT !.radix_tree_size = a.number]
  BY DEF Setting, Argument
<1>. HIDE DEF a
<1>6. /\ configuration'.buffer_size
           = IF a.option = "buffer_size" THEN Value(a) ELSE configuration.buffer_size
      /\ configuration'.radix_tree_size
           = IF a.option = "radix_tree_size" THEN Value(a) ELSE configuration.radix_tree_size
      /\ configuration'.cache
           = IF a.option \in {"c", "cache"} THEN Value(a) # 0 ELSE configuration.cache
  <2>1. CASE a.option = "c"
    <3>1. configuration' = [configuration EXCEPT !.cache = TRUE] /\ Value(a) = 1
      BY <1>4, <1>5, <2>1
    <3>2. /\ configuration'.cache = TRUE
          /\ configuration'.buffer_size = configuration.buffer_size
          /\ configuration'.radix_tree_size = configuration.radix_tree_size
      BY <1>1, <3>1 DEF Configuration
    <3>3. (Value(a) # 0) = TRUE
      BY <3>1
    <3>. QED  BY <2>1, <3>2, <3>3
  <2>2. CASE a.option = "cache"
    BY <1>1, <1>4, <1>5, <2>2 DEF Configuration, Numbers
  <2>3. CASE a.option = "buffer_size"
    BY <1>1, <1>4, <1>5, <2>3 DEF Configuration, Numbers
  <2>4. CASE a.option = "radix_tree_size"
    BY <1>1, <1>4, <1>5, <2>4 DEF Configuration, Numbers
  <2>. QED  BY <1>3, <2>1, <2>2, <2>3, <2>4 DEF Numbers
<1>7. SettingsRead(configuration', argv, at + 1)
  <2>1. /\ GivenBefore(argv, at + 1, {"buffer_size"}, 5)
             = IF a.option = "buffer_size" THEN Value(a)
               ELSE GivenBefore(argv, at, {"buffer_size"}, 5)
        /\ GivenBefore(argv, at + 1, {"radix_tree_size"}, 3)
             = IF a.option = "radix_tree_size" THEN Value(a)
               ELSE GivenBefore(argv, at, {"radix_tree_size"}, 3)
        /\ GivenBefore(argv, at + 1, {"c", "cache"}, 0)
             = IF a.option \in {"c", "cache"} THEN Value(a)
               ELSE GivenBefore(argv, at, {"c", "cache"}, 0)
    <3>1. \A options, default :
            GivenBefore(argv, at + 1, options, default)
              = IF a.option \in options THEN Value(a)
                ELSE GivenBefore(argv, at, options, default)
      BY <1>1, GivenBeforeNext, Zenon DEF a
    <3>. QED  BY <3>1
  <2>. QED  BY <1>2, <1>6, <2>1 DEF SettingsRead
<1>8. /\ Narrow(configuration'.buffer_size) = configuration'.buffer_size
      /\ Narrow(configuration'.radix_tree_size) = configuration'.radix_tree_size
  BY <1>4, <1>6 DEF OptionsInv, Numbers
<1>9. LoggingRead' /\ ObjectsObey' /\ ConfigurationRead'
  BY <1>1, <1>7 DEF OptionsInv, LoggingRead, ObjectsObey, ConfigurationRead
<1>. QED  BY <1>1, <1>8, <1>9 DEF OptionsInv

LEMMA MakeRunKeepsOptions ==
  ASSUME OptionsInv, SessionInv', MakeRun
  PROVE  OptionsInv'
PROOF
<1>1. /\ phase = "objects" /\ SessionInv /\ configuration \in Configuration
      /\ argv \in Seq(Arguments) /\ at \in Nat
      /\ LoggingRead /\ ConfigurationRead /\ ObjectsObey
      /\ Narrow(configuration.buffer_size) = configuration.buffer_size
      /\ Narrow(configuration.radix_tree_size) = configuration.radix_tree_size
      /\ UNCHANGED <<argv, configuration, logger, workload>>
  BY DEF MakeRun, Reading, NextArgument, GiveUp, OptionsInv, SessionInv, CommandLineOK
<1>2. at' <= Len(argv) + 1
  <2>1. at <= Len(argv) /\ at' \in {at, at + 1} /\ Len(argv) \in Nat
    <3>1. at <= Len(argv)
      BY DEF MakeRun, Reading
    <3>2. at' \in {at, at + 1}
      BY DEF MakeRun, NextArgument, GiveUp
    <3>. QED  BY <1>1, <3>1, <3>2
  <2>. QED  BY <1>1, <2>1
<1>3. phase' \in {"objects", "exit"} /\ (LoggingRead /\ ConfigurationRead)'
  BY <1>1 DEF MakeRun, NextArgument, GiveUp, LoggingRead, ConfigurationRead
<1>4. CASE UNCHANGED <<run, db>>
  BY <1>1, <1>2, <1>3, <1>4 DEF OptionsInv, ObjectsObey
<1>5. CASE /\ phase' = "objects"
           /\ LET d == Opened(db, Narrow(configuration.buffer_size), configuration.cache,
                              Narrow(configuration.radix_tree_size))
              IN  db' = Released(d, run) /\ run' = Newest(d)
  <2>. DEFINE size == configuration.buffer_size
              cached == configuration.cache
              cache_size == configuration.radix_tree_size
  <2>1. /\ size \in Sizes /\ cached \in BOOLEAN /\ cache_size \in Sizes
        /\ db' = Released(Opened(db, size, cached, cache_size), run)
        /\ run' = Newest(Opened(db, size, cached, cache_size))
    BY <1>1, <1>5 DEF Configuration, Sizes
  <2>. HIDE DEF size, cached, cache_size
  <2>2. Replaced(db', run, size, cached, cache_size)
    BY <1>1, <2>1, ReplacedEffect
  <2>3. run' = Len(db.managers) + 1
    BY <1>1, <2>1 DEF Opened, Newest, SessionInv, DatabasesOK
  <2>4. HasSettings(db'.managers[run'], configuration)
    BY <2>2, <2>3 DEF Replaced, HasSettings, size, cached, cache_size
  <2>5. workload # 0 => db'.managers[workload] = db.managers[workload]
    BY <1>1, <2>2 DEF Replaced, SessionInv, OwnersOK, Owners, DatabasesOK
  <2>6. ObjectsObey'
    BY <1>1, <2>4, <2>5 DEF ObjectsObey
  <2>. QED  BY <1>1, <1>2, <1>3, <2>6 DEF OptionsInv
<1>. QED  BY <1>1, <1>4, <1>5 DEF MakeRun, NextArgument, GiveUp

LEMMA MakeWorkloadKeepsOptions ==
  ASSUME OptionsInv, SessionInv', MakeWorkload
  PROVE  OptionsInv'
PROOF
<1>1. /\ phase = "objects" /\ SessionInv /\ configuration \in Configuration
      /\ argv \in Seq(Arguments) /\ at \in Nat
      /\ LoggingRead /\ ConfigurationRead /\ ObjectsObey
      /\ configuration' = [configuration EXCEPT !.run_workload = TRUE]
      /\ UNCHANGED <<argv, phase, logger, run>>
  BY DEF MakeWorkload, Reading, NextArgument, OptionsInv, SessionInv, CommandLineOK
<1>2. at' <= Len(argv) + 1
  BY <1>1 DEF MakeWorkload, Reading, NextArgument, OptionsInv, SessionInv, CommandLineOK
<1>3. /\ configuration'.buffer_size = configuration.buffer_size
      /\ configuration'.radix_tree_size = configuration.radix_tree_size
      /\ configuration'.cache = configuration.cache
  BY <1>1 DEF Configuration
<1>4. /\ LoggingRead' /\ ConfigurationRead'
      /\ Narrow(configuration'.buffer_size) = configuration'.buffer_size
      /\ Narrow(configuration'.radix_tree_size) = configuration'.radix_tree_size
  BY <1>1, <1>3 DEF LoggingRead, ConfigurationRead, SettingsRead, OptionsInv
<1>5. CASE UNCHANGED <<workload, db>>
  BY <1>1, <1>2, <1>3, <1>4, <1>5 DEF OptionsInv, ObjectsObey, HasSettings
<1>6. CASE LET d == Opened(db, configuration.buffer_size, configuration.cache,
                           configuration.radix_tree_size)
           IN  db' = Released(d, workload) /\ workload' = Newest(d)
  <2>. DEFINE size == configuration.buffer_size
              cached == configuration.cache
              cache_size == configuration.radix_tree_size
  <2>1. /\ size \in Sizes /\ cached \in BOOLEAN /\ cache_size \in Sizes
        /\ db' = Released(Opened(db, size, cached, cache_size), workload)
        /\ workload' = Newest(Opened(db, size, cached, cache_size))
    BY <1>1, <1>6 DEF Configuration, Sizes
  <2>. HIDE DEF size, cached, cache_size
  <2>2. Replaced(db', workload, size, cached, cache_size)
    BY <1>1, <2>1, ReplacedEffect
  <2>3. workload' = Len(db.managers) + 1
    BY <1>1, <2>1 DEF Opened, Newest, SessionInv, DatabasesOK
  <2>4. HasSettings(db'.managers[workload'], configuration')
    BY <1>3, <2>2, <2>3 DEF Replaced, HasSettings, size, cached, cache_size
  <2>5. run # 0 => db'.managers[run] = db.managers[run]
    <3>1. run # 0 => run # workload /\ run \in 1 .. Len(db.managers)
      BY <1>1 DEF SessionInv, OwnersOK, Owners, DatabasesOK
    <3>. QED  BY <2>2, <3>1 DEF Replaced
  <2>6. ObjectsObey'
    BY <1>1, <1>3, <2>4, <2>5 DEF ObjectsObey, HasSettings
  <2>. QED  BY <1>1, <1>2, <1>4, <2>6 DEF OptionsInv
<1>. QED  BY <1>5, <1>6 DEF MakeWorkload

LEMMA WorkingKeepsOptions ==
  ASSUME OptionsInv, SessionInv',
         EndObjects \/ Evict \/ EndExecution \/ BeginRun \/ EndRun \/ EndScript
           \/ EndWorkload \/ EndRunConfig
  PROVE  OptionsInv'
PROOF
<1>1. /\ SessionInv /\ argv \in Seq(Arguments) /\ at \in Nat
      /\ LoggingRead /\ ConfigurationRead /\ ObjectsObey
      /\ UNCHANGED <<argv, at, configuration, logger>>
  BY DEF OptionsInv, SessionInv, CommandLineOK, EndObjects, Evict, EndExecution, BeginRun,
         EndRun, EndScript, EndWorkload, EndRunConfig, GiveUp
<1>2. ASSUME phase' \notin {"logging", "settings", "objects", "execute"}
      PROVE  OptionsInv'
  BY <1>1, <1>2 DEF OptionsInv, LoggingRead, ConfigurationRead, ObjectsObey
<1>3. CASE EndObjects /\ phase' = "execute"
  <2>1. phase = "objects" /\ UNCHANGED <<run, workload, db>>
    BY <1>3 DEF EndObjects, GiveUp
  <2>. QED  BY <1>1, <1>3, <2>1 DEF OptionsInv, LoggingRead, ConfigurationRead, ObjectsObey
<1>4. CASE Evict /\ phase = "execute"
  <2>. DEFINE x == Executed
              n == Len(db.managers)
  <2>1. /\ phase' = phase /\ x \in {run, workload} \ {0} /\ db' = Saved(db, x)
        /\ UNCHANGED <<run, workload>>
    BY <1>4 DEF Evict, Executed
  <2>2. DatabasesOK(db) /\ x \in 1 .. n /\ {run, workload} \ {0} \subseteq 1 .. n
    <3>1. DatabasesOK(db) /\ {run, workload} \ {0} \subseteq 1 .. n
      BY SMTT(30), <1>1 DEF SessionInv, OwnersOK, Owners, DatabasesOK
    <3> QED
      BY ONLY <2>1, <3>1
  <2>. HIDE DEF x
  <2>3. /\ \A i \in 1 .. n \ {x} : db'.managers[i] = db.managers[i]
        /\ db'.managers[x] = [db.managers[x] EXCEPT !.saved = @ + 1]
    BY <2>1, <2>2, SavedEffect
  <2>4. HasSettings(db.managers[x], configuration) => HasSettings(db'.managers[x], configuration)
    <3>. DEFINE r == db.managers[x]
    <3>1. r \in Manager /\ db'.managers[x] = [r EXCEPT !.saved = @ + 1]
      BY <2>2, <2>3 DEF DatabasesOK
    <3>. HIDE DEF r
    <3>2. /\ db'.managers[x].buffer_size = r.buffer_size /\ db'.managers[x].cache = r.cache
          /\ db'.managers[x].radix_tree_size = r.radix_tree_size
      BY <3>1 DEF Manager
    <3>. QED  BY <3>2 DEF HasSettings, r
  <2>5. ObjectsObey'
    BY <1>1, <1>4, <2>1, <2>2, <2>3, <2>4 DEF ObjectsObey
  <2>. QED  BY <1>1, <1>4, <2>1, <2>5 DEF OptionsInv, LoggingRead, ConfigurationRead
<1>5. \/ phase' \notin {"logging", "settings", "objects", "execute"}
      \/ EndObjects /\ phase' = "execute"
      \/ Evict /\ phase = "execute"
  <2>1. Evict => phase \in {"execute", "script"} /\ phase' = phase
    BY DEF Evict, Executed
  <2>. QED  BY <2>1 DEF EndObjects, GiveUp, EndExecution, BeginRun, EndRun, EndScript,
                        EndWorkload, EndRunConfig
<1>. QED  BY <1>2, <1>3, <1>4, <1>5

LEMMA OptionsInvNext ==
  ASSUME NumbersFitAnInt  PROVE OptionsInv /\ [Next]_vars => OptionsInv'
PROOF
<1>. SUFFICES ASSUME OptionsInv, [Next]_vars  PROVE OptionsInv'
  OBVIOUS
<1>1. SessionInv'
  BY SessionInvNext DEF OptionsInv
<1>2. CASE UNCHANGED vars
  BY <1>1, <1>2 DEF vars, OptionsInv, LoggingRead, ConfigurationRead, ObjectsObey
<1>. QED
  BY <1>1, <1>2, ReadingKeepsOptions, SettingKeepsOptions, MakeRunKeepsOptions,
     MakeWorkloadKeepsOptions, WorkingKeepsOptions
  DEF Next

(* As long as no setting exceeds an int (one that does is lost in the      *)
(* constructors of run_config.h), the database that is executed has the    *)
(* last settings of the command line, and benchmark mode is quiet.         *)
THEOREM CommandLineIsObeyed ==
  ASSUME NumbersFitAnInt  PROVE Spec => []OptionsAreObeyed
PROOF
<1>1. OptionsInv => OptionsAreObeyed
  <2>. SUFFICES ASSUME OptionsInv, phase = "execute"  PROVE OptionsAreObeyed
    BY DEF OptionsAreObeyed
  <2>1. /\ argv \in Seq(Argument_) /\ SettingsRead(configuration, argv, Len(argv) + 1)
        /\ Executed \in {run, workload} \ {0}
    BY DEF OptionsInv, SessionInv, CommandLineOK, ConfigurationRead, OwnersOK, Executed
  <2>2. HasSettings(db.managers[Executed], configuration)
    BY <2>1 DEF OptionsInv, ObjectsObey
  <2>3. /\ configuration.buffer_size = Given({"buffer_size"}, 5)
        /\ configuration.radix_tree_size = Given({"radix_tree_size"}, 3)
        /\ configuration.cache = (Given({"c", "cache"}, 0) # 0)
    BY <2>1, GivenBeforeAll DEF SettingsRead
  <2>4. ASSUME Given({"benchmark"}, 0) # 0
        PROVE  logger = [level |-> "off", sink |-> "c"]
    <3>1. \E i \in DOMAIN argv : argv[i].option = "benchmark"
      BY <2>4 DEF Given
    <3>2. BenchmarkBefore(argv, Len(argv) + 1)
      BY <2>1, <3>1 DEF BenchmarkBefore
    <3>. QED  BY <3>2 DEF OptionsInv, LoggingRead
  <2>. QED  BY <2>2, <2>3, <2>4 DEF OptionsAreObeyed, HasSettings
<1>. QED  BY <1>1, OptionsInvInit, OptionsInvNext, PTL DEF Spec
=============================================================================
