-------------------------- MODULE MCSurfaceManager ---------------------------
(* The instances of SurfaceManager that TLC checks, of which a behaviour is *)
(* one: "nested", where prompt providers ask for prompts themselves and     *)
(* nothing is displayed, and "displayed", where an application asks for the *)
(* prompts of one provider, and their surfaces are displayed.               *)
EXTENDS SurfaceManager, MCPart, TLC

Displays == \E w \in Windows : surface[w].views # {}
Nested ==
  \/ Cardinality({ s \in Sessions \ Apps : client[s] # "none" }) > 1
  \/ \E s \in Sessions \ Apps : prompt[s] # "none"

MCInit == part \in { "nested", "displayed" } /\ Init
MCNext ==
  \/ part = "nested" /\ Next /\ ~ Displays' /\ UNCHANGED part
  \/ part = "displayed" /\ Next /\ ~ Nested' /\ UNCHANGED part

MCSpec == MCInit /\ [][MCNext]_<< part, vars >>

(* Windows can change places, and so can items and prompt providers.        *)
Symmetric == Permutations(Windows) \cup Permutations(Items) \cup Permutations(Providers)
==============================================================================
