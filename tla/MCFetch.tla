------------------------------ MODULE MCFetch ------------------------------
(***************************************************************************)
(* Offers for TLC: archives of small images, with the headers a zip writer *)
(* makes, and manifest entries that give everything or less.               *)
(*                                                                         *)
(* A size field holds 0 to 3; 4 stands for 0xFFFFFFFF.  A deflated body is *)
(* a unit for each unit of the image and an end mark.                      *)
(***************************************************************************)
EXTENDS Fetch, TLC

MCMax32 == 4
MCHalf64 == 16
MCUnits == Marks \cup {"d1", "d2", "d3", "old"}

Small == <<"d1", "d2">>
Large == <<"d1", "d2", "d3">>

\* The extra field as zip writers fill it.
Zip64Rec(un, comp) ==
    [id |-> "zip64", size |-> 16, fits |-> TRUE, un |-> un, comp |-> comp]
OtherRec == [id |-> "other", size |-> 20, fits |-> TRUE, un |-> 0, comp |-> 0]
\* A central-directory kind of zip64 record, with one size only.
ShortRec == [id |-> "zip64", size |-> 8, fits |-> TRUE, un |-> 1, comp |-> 0]

Body(method, payload) == IF method = "store" THEN payload ELSE Append(payload, "end")

Plain(method, payload) ==
    [sig |-> TRUE, dd |-> FALSE, method |-> method, un |-> Len(payload),
     comp |-> Len(Body(method, payload)), extra |-> <<>>]
Streamed(method) ==
    [sig |-> TRUE, dd |-> TRUE, method |-> method, un |-> 0, comp |-> 0, extra |-> <<>>]
Big(method, payload, before) ==
    [sig |-> TRUE, dd |-> FALSE, method |-> method, un |-> Max32, comp |-> Max32,
     extra |-> Append(before, Zip64Rec(Len(payload), Len(Body(method, payload))))]
BigStreamed(method) ==
    [sig |-> TRUE, dd |-> TRUE, method |-> method, un |-> Max32, comp |-> Max32,
     extra |-> <<Zip64Rec(0, 0)>>]

ArchiveOf(h, payload) ==
    [header |-> h, body |-> Body(h.method, payload), tail |-> <<"tail">>]

\* What the manifest gives: the archive's hash is the archive.
Full(a, payload) ==
    [sha1 |-> WireOf(a), md5 |-> WireOf(a),
     ZipFileSize |-> Len(WireOf(a)), FileSize |-> Len(payload)]
Md5Only(a) == [sha1 |-> <<>>, md5 |-> WireOf(a), ZipFileSize |-> 0, FileSize |-> 0]
Bare == [sha1 |-> <<>>, md5 |-> <<>>, ZipFileSize |-> 0, FileSize |-> 0]

OfferFull(h, payload) ==
    LET a == ArchiveOf(h, payload)
    IN  [image |-> Full(a, payload), archive |-> a, payload |-> payload]

Whole ==
    {OfferFull(Plain("store", Small), Small),
     OfferFull(Plain("deflate", Small), Small),
     OfferFull(Big("deflate", Large, <<OtherRec, ShortRec>>), Large),
     OfferFull(Big("store", Large, <<>>), Large),
     OfferFull(Streamed("deflate"), Small),
     OfferFull(BigStreamed("deflate"), Large)}
Partial ==
    LET a == ArchiveOf(Plain("store", Large), Large)
        b == ArchiveOf(Streamed("deflate"), Large)
    IN  {[image |-> Md5Only(a), archive |-> a, payload |-> Large],
         [image |-> Bare, archive |-> b, payload |-> Large]}
OneOffer == {OfferFull(Plain("store", Small), Small)}
StoredStreamed == {OfferFull(Streamed("store"), Small)}

\* Headers no good archive has: no zip at all, another method, zip64 sizes and
\* no record that has them, and a size that is negative as an int64.
Unreadable ==
    {OfferFull([Plain("store", Small) EXCEPT !.sig = FALSE], Small),
     OfferFull([Plain("store", Small) EXCEPT !.method = "other"], Small),
     OfferFull([Big("store", Large, <<OtherRec>>) EXCEPT !.extra[1].fits = FALSE], Large),
     OfferFull([Big("store", Large, <<>>) EXCEPT !.extra[1].comp = Half64], Large)}

MCOffers == Whole \cup Partial \cup StoredStreamed \cup Unreadable

MCInodes == 1 .. Cardinality(Procs) + 3
MCOldFile == <<"old">>

\* The offers are what the theorems suppose.
ASSUME OffersAreSound == TruthfulManifest /\ SoundOffers
=============================================================================
