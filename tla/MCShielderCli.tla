---------------------------- MODULE MCShielderCli ----------------------------
(* Commands for model checking ShielderCli. *)
EXTENDS ShielderCli

Command(name, token, seed) ==
  [name |-> name, token |-> token, amount |-> 1, seed |-> seed]

\* An account of the native token and one of an ERC20; a seed that is given is used for
\* both.
CliCommands ==
  {Command(name, "native", "None") :
     name \in {"Initialize", "NodeUrl", "ContractAddress", "RelayerUrl", "Read"}}
    \union {Command(name, t, "None") : name \in Contract \union {"RecoverState"}, t \in Tokens}
    \union {Command("NewAccount", "native", "s"), Command("RecoverState", "erc20", "s")}

Symmetry == Permutations(Processes) \union Permutations(Files)
=============================================================================
