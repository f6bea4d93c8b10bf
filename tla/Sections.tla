------------------------------ MODULE Sections ------------------------------
(***************************************************************************)
(* The sections that the program lays out byte by byte: the AIT (ait.c),   *)
(* the TOT (tdt.c) and the EIT (eit.c); and how a receiver reads them, by  *)
(* their length fields alone.  Bytes that are no length are 0 here.        *)
(***************************************************************************)
EXTENDS Integers, Sequences

Other(n) == [i \in 1..n |-> 0]

(* Sixteen bits, of which the upper four are flags in every length field. *)
Field(v) == <<240 + (v \div 256), v % 256>>

(* gst_mpegts_descriptor_from_custom: a tag, a length in eight bits, and as
   many bytes of the data. *)
Descriptor(data, length) == <<0, length>> \o SubSeq(data, 1, length)

(* Descriptors behind each other, and their length. *)
Joined(ds) ==
  LET joined[n \in 0..Len(ds)] ==
        IF n = 0 THEN <<>> ELSE joined[n - 1] \o ds[n]
  IN  joined[Len(ds)]

Total(ds) ==
  LET total[n \in 0..Len(ds)] ==
        IF n = 0 THEN 0 ELSE total[n - 1] + Len(ds[n])
  IN  total[Len(ds)]

-----------------------------------------------------------------------------
(* construct_ait: the four descriptors of its application, for an url, a
   name and a path of the given lengths. *)
TransportProtocol_NoCount(url) ==
  Descriptor(<<0, 3, 1, url % 256>> \o Other(url + 1), (url + 4) % 256)
TransportProtocol(url) ==
  Descriptor(<<0, 3, 1, url % 256>> \o Other(url + 1), (url + 5) % 256)

(* The bytes for it are allocated by its length: g_new0 of none is NULL, which
   is written through. *)
NothingAllocated(url) == (url + 5) % 256 = 0

ApplicationDescriptor == Descriptor(<<5>> \o Other(8), 9)

ApplicationName(name) ==
  Descriptor(Other(3) \o <<name % 256>> \o Other(name), (name + 4) % 256)

ApplicationLocation(path) == Descriptor(Other(path), path % 256)

AitDescriptors(text) ==
  <<TransportProtocol(text.url), ApplicationDescriptor,
    ApplicationName(text.name), ApplicationLocation(text.path)>>

(* packetize_ait: the size that it allocates, for no common descriptors and
   one application; and the bytes that it writes. *)
AitSize(ds) == 16 + 9 + Total(ds)

Ait(ds) ==
  <<116>> \o Field(AitSize(ds) - 3) \o Other(5)
    \o Field(0)
    \o Field(9 + Total(ds))
    \o Other(7) \o Field(Total(ds)) \o Joined(ds)
    \o Other(4)

(* What construct_ait accepts. *)
AitAccepted_Packet(text) == AitSize(AitDescriptors(text)) <= 188
AitAccepted(text) == AitSize(AitDescriptors(text)) <= 182

-----------------------------------------------------------------------------
(* construct_tot: section_length 0x1a, a loop of 0x0f with one descriptor of
   0x0d; get_tot_packet puts the CRC behind it. *)
Tot ==
  <<115>> \o Field(26) \o Other(5)
    \o Field(15) \o <<88, 13>> \o Other(3 + 1 + 2 + 5 + 2)
    \o Other(4)

-----------------------------------------------------------------------------
(* create_short_event_descriptor, and the EIT of one event that add_eit
   builds with it. *)
ShortEvent(title, description) ==
  Descriptor(Other(3) \o <<title>> \o Other(title)
               \o <<description>> \o Other(description), 5 + title + description)

EitSize(ds) == 18 + 12 + Total(ds)

Eit(ds) ==
  <<78>> \o Field(EitSize(ds) - 3) \o Other(11)
    \o Other(2 + 5 + 3) \o Field(Total(ds)) \o Joined(ds)
    \o Other(4)

Title == 10          \* "test title"
Description == 16    \* "test description"

-----------------------------------------------------------------------------
(* The receiver.  A length field at position i of section b. *)
FieldAt(b, i) == 256 * (b[i] % 16) + b[i + 1]

(* The position of the CRC, by the section's length. *)
CrcAt(b) == FieldAt(b, 2)

(* From i, descriptors follow each other and end exactly before position e. *)
DescriptorsEnd(b, i, e) ==
  LET ends[p \in Nat] ==
        p = e \/ (p + 1 < e /\ ends[p + 2 + b[p + 1]])
  IN  ends[i]

(* A loop whose length is at position i ends before position e. *)
LoopEnds(b, i, e) ==
  /\ i + 2 + FieldAt(b, i) = e
  /\ DescriptorsEnd(b, i + 2, e)

(* The section is as long as what is stored of it, and ends with a CRC. *)
Whole(b) == CrcAt(b) + 3 = Len(b)

(* The AIT: no common descriptors, then one application, then the CRC; the
   url in its first descriptor is as long as the descriptor allows. *)
AitReads(b) ==
  /\ Whole(b)
  /\ FieldAt(b, 9) = 0
  /\ 13 + FieldAt(b, 11) = CrcAt(b)
  /\ LoopEnds(b, 20, CrcAt(b))
  /\ b[22 + 1] = 4 + b[22 + 5] + 1

TotReads(b) ==
  /\ Whole(b)
  /\ LoopEnds(b, 9, CrcAt(b))

EitReads(b) ==
  /\ Whole(b)
  /\ LoopEnds(b, 25, CrcAt(b))
=============================================================================
