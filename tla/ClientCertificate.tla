-------------------------- MODULE ClientCertificate --------------------------
(***************************************************************************)
(* Loading TLS certificates named by a connection string                  *)
(* (mongo/options/clientoptions.go): addCACertFromFile,                   *)
(* addClientCertFromConcatenatedFile, addClientCertFromSeparateFiles,     *)
(* addClientCertFromBytes, and extractX509UsernameFromSubject.  Pure      *)
(* operators; MCClientCertificate checks them over all bounded inputs.    *)
(*                                                                         *)
(* A file is the sequence of what pem.Decode meets in it: PEM blocks,     *)
(* with their type and the identity of the key pair they belong to, and  *)
(* text between them.  Key material is abstracted to that identity: a    *)
(* certificate and a private key match when their pair ids are equal.    *)
(***************************************************************************)
EXTENDS Naturals, Sequences, SequencesExt

\* Block types: CERTIFICATE, an unencrypted "... PRIVATE KEY", a key with a
\* DEK-Info header (x509.IsEncryptedPEMBlock), an "ENCRYPTED PRIVATE KEY"
\* (PKCS #8), any other PEM type, and non-PEM text.
KeyTypes == {"key", "dekKey", "pkcs8Key"}
EncryptedTypes == {"dekKey", "pkcs8Key"}

\* The password every encrypted key in a model file was encrypted with.
RightPassword == "right"

\* A file: whether ioutil.ReadFile succeeds on it, and its blocks.
File(readable, blocks) == [readable |-> readable, blocks |-> blocks]

Blocks(data, types) == SelectSeq(data, LAMBDA b : b.type \in types)

-----------------------------------------------------------------------------
(* addCACertFromFile: the CA pool accepts the file only when it holds a   *)
(* certificate.                                                           *)
AddCACertFromFile(file) ==
    CASE ~file.readable -> "read"
      [] Blocks(file.blocks, {"cert"}) = <<>> -> "noCA"
      [] OTHER -> "none"

(* tls.X509KeyPair on the joined certificate and key PEM data: the chain *)
(* is every CERTIFICATE block, the key the first private key block, and  *)
(* the key must belong to the leaf (the first certificate).              *)
X509KeyPair(certPEM, keyPEM) ==
    LET certs == Blocks(certPEM, {"cert"})
        keys == Blocks(keyPEM, KeyTypes)
    IN  CASE certs = <<>> -> "noCert"
          [] keys = <<>> -> "noKey"
          [] keys[1].pair # certs[1].pair -> "mismatch"
          [] OTHER -> "none"

\* The result of loading a client certificate.
Result(err, subject) == [err |-> err, subject |-> subject]

(* Mutant of CertDecodedBlock: it is assigned for every certificate, not *)
(* only while it is still nil.                                           *)
CertDecodedBlockEvery(s, b) == b.pair

(* certDecodedBlock: set from the first certificate only.               *)
CertDecodedBlock(s, b) == IF s.subject = 0 THEN b.pair ELSE s.subject

(* One iteration of the pem.Decode loop on block i.                      *)
CertBlockStep(data, passwd, s, i) ==
    LET b == data[i]
        slice == SubSeq(data, s.start, i)
    IN  CASE s.err # "none" -> s
          [] b.type = "cert" ->
               [s EXCEPT !.certBlocks = Append(@, slice),
                         !.subject = CertDecodedBlock(s, b), !.start = i + 1]
          [] b.type \in EncryptedTypes /\ passwd = "" ->
               [s EXCEPT !.err = "noPassword"]
          [] b.type \in EncryptedTypes /\ passwd # RightPassword ->
               [s EXCEPT !.err = "decrypt"]
          [] b.type \in EncryptedTypes ->
               [s EXCEPT !.keyBlocks = Append(@, <<[type |-> "key", pair |-> b.pair]>>),
                         !.start = i + 1]
          [] b.type = "key" ->
               [s EXCEPT !.keyBlocks = Append(@, slice), !.start = i + 1]
          [] OTHER -> s

(* addClientCertFromBytes: walk the PEM blocks; a certificate block is   *)
(* kept as the bytes from start (text before it included), the first    *)
(* one's body is the certificate whose subject is returned; a private   *)
(* key is kept the same way, or, when encrypted, needs the password and  *)
(* is decrypted and re-encoded; other blocks are skipped (start is not   *)
(* advanced past them).  Then both lists must be non-empty and form a    *)
(* key pair.  The subject is the pair id of the first certificate.       *)
AddClientCertFromBytes(data, passwd) ==
    LET Step(st, i) == CertBlockStep(data, passwd, st, i)
        init == [err |-> "none", start |-> 1, certBlocks |-> <<>>,
                 keyBlocks |-> <<>>, subject |-> 0]
        r == FoldLeft(Step, init, [i \in 1..Len(data) |-> i])
    IN  CASE r.err # "none" -> Result(r.err, 0)
          [] r.certBlocks = <<>> -> Result("noCert", 0)
          [] r.keyBlocks = <<>> -> Result("noKey", 0)
          [] OTHER ->
               LET e == X509KeyPair(FlattenSeq(r.certBlocks), FlattenSeq(r.keyBlocks))
               IN  Result(e, IF e = "none" THEN r.subject ELSE 0)

(* addClientCertFromConcatenatedFile.                                     *)
AddClientCertFromConcatenatedFile(file, passwd) ==
    IF ~file.readable THEN Result("read", 0)
    ELSE AddClientCertFromBytes(file.blocks, passwd)

(* addClientCertFromSeparateFiles: the key file is read first, then the  *)
(* certificate file; their contents are joined with a newline (text).    *)
(* The 64 MiB size limits are not reached by model files.               *)
AddClientCertFromSeparateFiles(keyFile, certFile, passwd) ==
    CASE ~keyFile.readable -> Result("read", 0)
      [] ~certFile.readable -> Result("read", 0)
      [] OTHER -> AddClientCertFromBytes(
                      keyFile.blocks \o <<[type |-> "text", pair |-> 0]>>
                                     \o certFile.blocks,
                      passwd)

-----------------------------------------------------------------------------
(* Strings are sequences of one-character strings.                        *)

\* strings.Join.
JoinWith(parts, sep) ==
    IF parts = <<>> THEN <<>>
    ELSE FoldLeft(LAMBDA acc, p : acc \o <<sep>> \o p, parts[1], Tail(parts))

\* strings.Split: n separators give n + 1 parts, empty ones included.
RECURSIVE SplitOn(_, _)
SplitOn(s, sep) ==
    LET i == SelectInSeq(s, LAMBDA c : c = sep)
    IN  IF i = 0 THEN <<s>>
        ELSE <<SubSeq(s, 1, i - 1)>> \o SplitOn(SubSeq(s, i + 1, Len(s)), sep)

(* extractX509UsernameFromSubject: split the subject on ",", reverse the *)
(* pieces, join them with ",".                                            *)
ExtractX509UsernameFromSubject(subject) ==
    JoinWith(Reverse(SplitOn(subject, ",")), ",")

=============================================================================
