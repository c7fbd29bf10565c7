----------------------------- MODULE MCToolLibrary -----------------------------
(* One page, which stands for any number of them: what another page does is  *)
(* what this one does while its own version is stale.  Two free names and a  *)
(* built-in one, one remote tool described in two ways.                      *)
EXTENDS ToolLibrary, TLC

Symmetries == Permutations(Offers)

\* an editor that has loaded the file and a discovery are not explored together
Apart == buffer.ok => /\ discoveries = {}
                      /\ \A p \in Pages : probing[p].conn = NoConn
=============================================================================
