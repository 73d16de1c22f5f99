---------------------------- MODULE AcceptToken ----------------------------
(***************************************************************************)
(* The key that a client sends with its request and what a server makes of *)
(* it, which the client compares with the one answer it knows.             *)
(***************************************************************************)
LOCAL INSTANCE Integers
LOCAL INSTANCE Sequences
LOCAL INSTANCE SequencesExt

Digest == INSTANCE Sha1
Text == INSTANCE Base64

\* "dGhlIHNhbXBsZSBub25jZQ==", the key the client always sends, in bytes.
sample_key == <<100, 71, 104, 108, 73, 72, 78, 104, 98, 88, 66, 115,
                90, 83, 66, 117, 98, 50, 53, 106, 90, 81, 61, 61>>
guid == <<50, 53, 56, 69, 65, 70, 65, 53, 45, 69, 57, 49, 52, 45, 52, 55, 68, 65,
          45, 57, 53, 67, 65, 45, 67, 53, 65, 66, 48, 68, 67, 56, 53, 66, 49, 49>>
\* "s3pPLMBiTxaQ9kYGzzhZRbK+xOo=", as values of its symbols.
expected_accept == <<44, 55, 41, 15, 11, 12, 1, 34, 19, 49, 26, 16, 61, 36,
                     24, 6, 51, 51, 33, 25, 17, 27, 10, 62, 49, 14, 40, 65>>

generate_accept_token(key) ==
    Text!base64_encode(FlattenSeq(
        [i \in 1..5 |-> LET word == Digest!DigestOf(<<key, guid>>)[i]
                        IN  <<word[1] \div 256, word[1] % 256, word[2] \div 256, word[2] % 256>>]))

\* expect_equal: the client takes only the answer to its one key.
ClientIsReady(accept) == accept = expected_accept
============================================================================
