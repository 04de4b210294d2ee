-------------------------- MODULE MCSeccompSyscalls --------------------------
(* Instances of SeccompSyscalls: one name of every kind.                   *)
EXTENDS SeccompSyscalls

Gated == {"mount", "settimeofday", "bpf"}
Plain == {"read", "statx", "vserver"}

MCNames == Gated \cup Plain \cup Inserted

\* Every header of these names, but for those the script itself inserts: they are there or not.
MCHeaders == SUBSET ((Gated \cup Plain) \X {TRUE} \cup {"statx", "bpf"} \X {FALSE})
               \cup {Inserted \X {TRUE}, MCNames \X {TRUE}, MCNames \X BOOLEAN}

\* Upstream lists some names by capability, "read" always or for another architecture.
MCProfiles ==
  {({"by capability"} \X g) \cup r :
     g \in SUBSET Gated,
     r \in {{}, {<<"always", "read">>}, {<<"by arch", "read">>}, {<<"always", "statx">>, <<"by arch", "vserver">>}}}
=============================================================================
