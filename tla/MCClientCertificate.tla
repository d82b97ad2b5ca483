------------------------- MODULE MCClientCertificate -------------------------
(***************************************************************************)
(* Checks the operators of ClientCertificate over every bounded input: a  *)
(* PEM file of up to three blocks (also read as a key file and a         *)
(* certificate file split at any point), a password, and a certificate   *)
(* subject of up to two relative distinguished names.                    *)
(***************************************************************************)
EXTENDS ClientCertificate

Block(t, p) == [type |-> t, pair |-> p]

\* Certificates and keys of two key pairs, encrypted keys of both kinds,
\* a PEM block of another type (EC PARAMETERS) and text between blocks.
Items == {Block("cert", 1), Block("cert", 2), Block("key", 1),
          Block("key", 2), Block("dekKey", 1), Block("pkcs8Key", 2),
          Block("other", 0), Block("text", 0)}

Passwords == {"", RightPassword, "wrong"}

\* Attribute values over a letter and the comma RFC 2253 escapes.
Values == {<<"a">>, <<",">>, <<"a", ",">>}

RDNs == {<<v>> : v \in Values} \cup {<<v, w>> : v, w \in Values}

VARIABLES data, passwd, split, rdns
vars == <<data, passwd, split, rdns>>

Init ==
    /\ data \in BoundedSeq(Items, 3)
    /\ passwd \in Passwords
    /\ split \in 0..Len(data)
    /\ rdns \in RDNs

\* The password option is set again, to any value, for the same files.
SetPassword ==
    /\ passwd' \in Passwords
    /\ UNCHANGED <<data, split, rdns>>

Spec == Init /\ [][SetPassword]_vars

-----------------------------------------------------------------------------
(* Reference (the certificate options' documentation): the client        *)
(* certificate is the first CERTIFICATE of the file with the first       *)
(* private key, which must belong to it; an encrypted key needs the     *)
(* password it was encrypted with; the subject returned is that of the   *)
(* first certificate.                                                     *)
CertLoadReference(blocks, pw) ==
    LET certs == Blocks(blocks, {"cert"})
        keys == Blocks(blocks, KeyTypes)
        encrypted == Blocks(blocks, EncryptedTypes) # <<>>
    IN  CASE encrypted /\ pw = "" -> Result("noPassword", 0)
          [] encrypted /\ pw # RightPassword -> Result("decrypt", 0)
          [] certs = <<>> -> Result("noCert", 0)
          [] keys = <<>> -> Result("noKey", 0)
          [] keys[1].pair # certs[1].pair -> Result("mismatch", 0)
          [] OTHER -> Result("none", certs[1].pair)

(* Whether the certificate and key come in one file (tlsCertificateKeyFile) *)
(* or in a key file followed by a certificate file, the PEM walk that    *)
(* slices blocks out of the data, decrypts encrypted keys and picks the  *)
(* first certificate's subject loads what the reference says.           *)
ClientCertMatchesReference ==
    /\ AddClientCertFromConcatenatedFile(File(TRUE, data), passwd)
         = CertLoadReference(data, passwd)
    /\ AddClientCertFromSeparateFiles(File(TRUE, SubSeq(data, 1, split)),
                                      File(TRUE, SubSeq(data, split + 1, Len(data))),
                                      passwd)
         = CertLoadReference(data, passwd)

-----------------------------------------------------------------------------
\* pkix.Name.String (Go's crypto/x509/pkix): the RDNs last to first,
\* separated by ",", with "," in a value escaped by a backslash.
Escape(v) == FlattenSeq([i \in DOMAIN v |-> IF v[i] = "," THEN <<"\\", ",">>
                                             ELSE <<v[i]>>])

SubjectString(r) == JoinWith(Reverse([i \in DOMAIN r |-> Escape(r[i])]), ",")

(* The comment of extractX509UsernameFromSubject: the x509 username is   *)
(* the certificate subject with its RDNs ("pairs") in the opposite order *)
(* to the one Go prints them in; each RDN, escaped comma included, is    *)
(* kept whole.                                                            *)
X509UsernameReversesRDNs ==
    ExtractX509UsernameFromSubject(SubjectString(rdns))
        = JoinWith([i \in DOMAIN rdns |-> Escape(rdns[i])], ",")
=============================================================================
