----------------------------- MODULE MCKeyCommands -----------------------------
(* An instance of KeyCommands for TLC: the empty path, the account the       *)
(* application is loaded for, whose parent it may not derive, a branch of it *)
(* and an address of that branch.                                            *)
EXTENDS KeyCommands

Account == <<44, 280, 0>>
Branch == Account \o <<0>>

MCPaths == {<<>>, Account, Branch, Branch \o <<1>>}
MCDerivable == {path \in MCPaths : IsPrefix(Account, path)}

===============================================================================
