---------------------------- MODULE Configuration ----------------------------
(***************************************************************************)
(* pkg/config/config.go: how a configuration file and the environment      *)
(* become the AppConfig of a program, and what SaveToFile writes back.     *)
(* viper is external: a value given with Set comes before the environment, *)
(* which comes before the file; Unmarshal decodes the keys that Set or the *)
(* file know, and fails as a whole if one does not have its field's type.  *)
(* Of the keys there is one for each way they are treated, besides those   *)
(* that a program's start-up depends on.                                   *)
(***************************************************************************)

CONSTANTS
  Absent,   \* no value
  Zero,     \* the empty text, 0 or false
  Good,     \* a value that is as it should be
  Wrong,    \* of the right type, but not acceptable to whoever uses it
  Garbled,  \* not the number or truth value it should be
  ToFile,   \* as log.output: the log goes to a file
  Default   \* what setDefaults puts for a key

\* The fields of AppConfig, by type.
Text == {"server.address", "log.level", "log.output", "log.filename",
         "trace.jaeger_endpoint", "nacos.server_addr"}
Number == {"server.port", "server.max_connections", "trace.sample_rate"}
Flag == {"server.enable_async", "trace.enable_console"}
Key == Text \cup Number \cup Flag

Values(k) ==
  {Absent, Zero, Good} \cup (IF k \in Flag THEN {} ELSE {Wrong})
    \cup (IF k \in Text THEN {} ELSE {Garbled})
    \cup (IF k = "log.output" THEN {ToFile} ELSE {})

\* A configuration file or an environment: key -> value.
Source == {f \in [Key -> {Absent, Zero, Good, Wrong, Garbled, ToFile}] :
             \A k \in Key : f[k] \in Values(k)}
Nothing == [k \in Key |-> Absent]

\* A variable that is set to the empty text counts as not set.
Variable(env, k) == IF k \in Text /\ env[k] = Zero THEN Absent ELSE env[k]

\* loadFromEnv looks at some keys only, and passes over what it cannot parse.
Listed == {"server.address", "server.port", "server.enable_async",
           "trace.jaeger_endpoint", "nacos.server_addr"}
Override(env, k) ==
  IF k \in Listed /\ Variable(env, k) # Garbled THEN Variable(env, k) ELSE Absent

\* viper.Get after New and LoadFromFile.
Get(file, env, k) ==
  CASE Override(env, k) # Absent -> Override(env, k)
    [] Override(env, k) = Absent /\ Variable(env, k) # Absent -> Variable(env, k)
    [] Override(env, k) = Absent /\ Variable(env, k) = Absent -> file[k]

\* viper.AllKeys
Known(file, env, k) == file[k] # Absent \/ Override(env, k) # Absent

\* viper.Unmarshal: a field whose key is not known stays zero.
Unmarshal(file, env, k) == IF Known(file, env, k) THEN Get(file, env, k) ELSE Zero
UnmarshalFails(file, env) == \E k \in Key : Unmarshal(file, env, k) = Garbled

\* setDefaults takes a zero for a value that was not given; flags and some texts
\* have no default.
Defaulted == {"server.address", "server.port", "server.max_connections", "log.level",
              "log.output", "trace.sample_rate"}
SetDefault(k, v) == IF v = Zero /\ k \in Defaulted THEN Default ELSE v

\* GetAppConfig, if Unmarshal does not fail.
AppConfig(file, env) == [k \in Key |-> SetDefault(k, Unmarshal(file, env, k))]

\* SaveToFile: the file that is written.
SavedFile(file, env) ==
  [k \in Key |-> IF Known(file, env, k) THEN Get(file, env, k) ELSE Absent]
===============================================================================
