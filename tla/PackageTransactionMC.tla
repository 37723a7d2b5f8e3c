------------------------- MODULE PackageTransactionMC -------------------------
(* Publishers for TLC: two want the same package, a third one another that   *)
(* shares their manifest.                                                    *)
EXTENDS PackageTransaction, TLC

CONSTANTS p1, p2, p3

MCPublishers == {p1, p2, p3}
MCBytes == {"manifest", "artifactA", "artifactB", "receiptA", "receiptB"}
MCPayload ==
    [p \in MCPublishers |->
        IF p = p3 THEN <<"manifest", "artifactB", "receiptB">>
                  ELSE <<"manifest", "artifactA", "receiptA">>]
=============================================================================
