----------------------------- MODULE MCOtaUpgrade -----------------------------
(* Packages: one that fits, one whose announced size is too large for its    *)
(* digest, an empty one, one that is committed as soon as it is verified.    *)
EXTENDS OtaUpgrade
CONSTANTS a, b

Package(size, digest, override, force, auto) ==
    [size |-> size, digest |-> digest, override |-> override, force |-> force, auto |-> auto]

MCManifests ==
    { Package(2, <<a, b>>, FALSE, FALSE, FALSE),
      Package(1, <<b>>, TRUE, TRUE, TRUE),
      Package(2, <<a>>, FALSE, TRUE, FALSE),
      Package(0, <<>>, TRUE, FALSE, FALSE) }
=============================================================================
