--------------------------- MODULE MCTlsV3Connect ---------------------------
(* TlsV3Connect for TLC: a self-signed certificate, one that a CA issued,   *)
(* and one sent with its CA; and the anchors the code gives, none.          *)
EXTENDS TlsV3Connect

Cert(dn, issuer, ca) == [dn |-> dn, issuer |-> issuer, ca |-> ca, names |-> {"host"}]

ServerChains == { << Cert("server", "server", TRUE) >>,
                  << Cert("server", "root", FALSE) >>,
                  << Cert("server", "root", FALSE), Cert("root", "root", TRUE) >> }
=============================================================================
