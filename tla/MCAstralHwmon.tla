--------------------------- MODULE MCAstralHwmon ---------------------------
(* Instances of AstralHwmon for TLC, on a machine with an Astral card, an   *)
(* NVIDIA GPU that is none, and the board's SMBus. The card has the sensor's *)
(* adapter s and an adapter k whose number begins with the same digit; f is  *)
(* the other GPU's adapter 1.                                                *)
EXTENDS AstralMachine, TLC

CONSTANTS s, k, f, b1, b2, c1, c2, smbus

Card == [vendor |-> "10de", subsystem |-> "89e31043"]
Gpu == [vendor |-> "10de", subsystem |-> "16f31043"]
Numbered(n) == [nvidia |-> TRUE, number |-> n, glued |-> FALSE]

MCModels == {"89e31043"}
MCDevices == {Card, Gpu}
MCDescribe == s :> [parent |-> Card, name |-> Numbered(1)]
           @@ k :> [parent |-> Card, name |-> Numbered(10)]
           @@ f :> [parent |-> Gpu, name |-> Numbered(1)]
MCBoard == smbus :> [parent |-> None,
                     name |-> [nvidia |-> FALSE, number |-> NoNumber, glued |-> FALSE]]

MCCardFound == Detect!CardPresent(MCDevices, AllowUnknown)
MCCardAdapters == {a \in Adapters : Detect!CardMatches(MCDescribe[a], AllowUnknown)}
MCSensorNamed == {a \in Adapters : Detect!IsSensorAdapter(MCDescribe[a])}

(* Clients are interchangeable; bus numbers are while bus= is on auto.     *)
ClientSymmetry == Permutations({c1, c2})
WorldSymmetry == ClientSymmetry \cup Permutations({b1, b2})
=============================================================================
