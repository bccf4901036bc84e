----------------------------- MODULE MCSession -----------------------------
(***************************************************************************)
(* Session with a few arguments of each kind, bad ones among them.  An int *)
(* goes to 7 here and a uint64_t to 255.                                   *)
(***************************************************************************)
EXTENDS Session

Text(option, text) == [option |-> option, text |-> text]
Number(option, number) == [option |-> option, number |-> number]

(* Two values of a setting, to see which one is taken. *)
SmallArguments ==
  {[option |-> o] : o \in {"benchmark", "c", "script", "help"}}
    \cup {Text("verbosity_level", t) : t \in {"debug", "bad"}}
    \cup {Text("log_mode", t) : t \in {"f", "bad"}}
    \cup {Text("run_config", t) : t \in {"1", "2", "unknown", "no digit"}}
    \cup {Text("workload", t) : t \in {"none", "a", "unknown"}}
    \cup {Number("cache", 0), Number("buffer_size", 2), Number("buffer_size", 4),
          Number("radix_tree_size", 6)}

(* As many bytes as an int does not hold: it takes them for a negative     *)
(* number, and the uint64_t behind it for 252.                             *)
LargeArguments ==
  {[option |-> "c"], Text("run_config", "1"), Text("workload", "a"),
   Number("radix_tree_size", 12)}
=============================================================================
