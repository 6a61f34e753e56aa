-------------------------------- MODULE Elf --------------------------------
(***************************************************************************)
(* The ELF writer (Backend/Gen/GenElf.cpp) behind the assembler: KTL_Elf-  *)
(* Emit gives every section a place in the file and in memory, builds the  *)
(* tables of the dynamic linker (symbols, hash, relocations, PLT, GOT),    *)
(* finishes the displacements that depend on those places, and writes the  *)
(* file.  Its functions run once each in a fixed order, and each relies on *)
(* fields the ones before it have set: they are steps here, and a field    *)
(* nobody has set yet is 0, as in the zeroed context.                      *)
(*                                                                         *)
(* A table holds what its entries refer to: an address, an index, a name.  *)
(***************************************************************************)
EXTENDS Assemble

CONSTANTS
  virt_adr, PAGE_SIZE,  \* where the file is loaded, and in which units
  LoaderLen, LibsLen,   \* bytes of STANDARD_LOADER; of the library names
  NameLen,              \* strlen of the name of an import
  nbucket, elf_hash     \* STANDARD_HASH_SIZE, and the hash of a name

ASSUME ElfAssumption ==
  /\ PAGE_SIZE \in Nat \ {0} /\ virt_adr \in Nat /\ virt_adr % PAGE_SIZE = 0
  /\ LoaderLen \in Nat \ {0} /\ LibsLen \in Nat
  /\ NameLen \in [Imports -> Nat \ {0}]
  /\ nbucket \in Nat \ {0} /\ elf_hash \in [Imports -> Nat]

Ehdr == 64    Phdr == 56    PHDR_AMOUNT == 6
Sym  == 24    Rela == 24    Dyn == 16    DYNAMIC_AMOUNT == 15
SIZE_PLT_STAB == 16    Word == 8

VARIABLES
  step,    \* the next function of KTL_ElfEmit
  sec,     \* place of each section: file_off, vaddr, size
  imps,    \* cont->import
  dynsym,  \* name of each symbol but the first, STN_UNDEF
  hash, rela, plt, got, dynamic,
  phdr,    \* e_entry and the two PT_LOAD headers
  file     \* what is written, and where in the file

elf_vars == <<step, sec, imps, dynsym, hash, rela, plt, got, dynamic, phdr, file>>
asm_vars == vars

Sections == {"interp", "hash", "dynsym", "dynstr", "rela_plt", "plt", "text",
             "rodata", "dynamic", "got_plt", "data"}

Place(off, size) == [file_off |-> off, vaddr |-> virt_adr + off, size |-> size]
Unset == [file_off |-> 0, vaddr |-> 0, size |-> 0]
End(s) == s.file_off + s.size
align_up_u64(val, alg) == ((val + alg - 1) \div alg) * alg

Run(s, next) == stage = "done" /\ step = s /\ step' = next

fill_interp ==
  /\ Run("interp", "import_symbol")
  /\ sec' = [sec EXCEPT !["interp"] = Place(PHDR_AMOUNT * Phdr + Ehdr, LoaderLen)]
  /\ UNCHANGED <<asm_vars, imps, dynsym, hash, rela, plt, got, dynamic, phdr, file>>

(***************************************************************************)
(* Imports                                                                 *)
(***************************************************************************)
find_import(is, name) == {i \in DOMAIN is : is[i].name = name}

Import(is, fix) ==
  IF find_import(is, fix.target) # {} THEN is
  ELSE Append(is, [name |-> fix.target, got_idx |-> 3 + Len(is), plt_idx |-> Len(is),
                   dynsym_offset |-> Len(is) + 1])

(* The imports of the first n calls.                                       *)
Imported[n \in 0 .. Len(outside_fix.data)] ==
  IF n = 0 THEN <<>> ELSE Import(Imported[n - 1], outside_fix.data[n])

(* The sums of the first 0, 1, ... lengths.                                *)
Sums(len) ==
  LET sum[k \in 0 .. Len(len)] == IF k = 0 THEN 0 ELSE sum[k - 1] + len[k] IN sum

get_size_hash(is) == (2 + nbucket + Len(is) + 1) * 4
dynstr_size(is) ==
  1 + LibsLen + Sums([k \in DOMAIN is |-> NameLen[is[k].name] + 1])[Len(is)]

(* Broken form of fill_import_symbol: the hash table is measured before    *)
(* the imports are counted.                                                *)
fill_import_symbol_early ==
  LET is  == Imported[Len(outside_fix.data)]
      off == End(sec["interp"]) + get_size_hash(<<>>)
      sym == (Len(is) + 1) * Sym
  IN  /\ Run("import_symbol", "hash")
      /\ imps' = is
      /\ dynsym' = [i \in DOMAIN is |-> is[i].name]
      /\ sec' = [sec EXCEPT !["dynsym"] = Place(off, sym),
                            !["dynstr"] = Place(off + sym, dynstr_size(is))]
      /\ UNCHANGED <<asm_vars, hash, rela, plt, got, dynamic, phdr, file>>

fill_import_symbol ==
  LET is  == Imported[Len(outside_fix.data)]
      off == End(sec["interp"]) + get_size_hash(is)
      sym == (Len(is) + 1) * Sym
  IN  /\ Run("import_symbol", "hash")
      /\ imps' = is
      /\ dynsym' = [i \in DOMAIN is |-> is[i].name]
      /\ sec' = [sec EXCEPT !["dynsym"] = Place(off, sym),
                            !["dynstr"] = Place(off + sym, dynstr_size(is))]
      /\ UNCHANGED <<asm_vars, hash, rela, plt, got, dynamic, phdr, file>>

Bucket(name) == elf_hash[name] % nbucket

(* A symbol goes before the ones in its bucket.                            *)
Chained(h, i) ==
  LET b == Bucket(dynsym[i])
  IN  [buckets |-> [h.buckets EXCEPT ![b] = i], chains |-> Append(h.chains, h.buckets[b])]

NoSymbols == [buckets |-> [b \in 0 .. nbucket - 1 |-> 0], chains |-> <<>>]

(* The table of the first n symbols.                                       *)
Hashed[n \in 0 .. Len(imps)] == IF n = 0 THEN NoSymbols ELSE Chained(Hashed[n - 1], n)

fill_hash ==
  /\ Run("hash", "layout_context")
  /\ hash' = Hashed[Len(imps)]
  /\ sec' = [sec EXCEPT !["hash"] = Place(End(sec["interp"]), get_size_hash(imps))]
  /\ UNCHANGED <<asm_vars, imps, dynsym, rela, plt, got, dynamic, phdr, file>>

(***************************************************************************)
(* Layout                                                                  *)
(***************************************************************************)
(* flatter: the bytes of the items, but for DATA_ZERO, whose length is     *)
(* added to the size instead of the position.                              *)
flat_len(items) ==
  Sums([k \in DOMAIN items |-> IF items[k].kind = "zero" THEN 0 ELSE 2 * items[k].len])[Len(items)]

Paged(off) == align_up_u64(off, PAGE_SIZE)

fill_layout_context ==
  LET n        == Len(imps)
      rela_plt == Place(End(sec["dynstr"]), n * Rela)
      plt_     == Place(End(rela_plt), (n + 1) * SIZE_PLT_STAB)
      text     == Place(End(plt_), offset)
      rodata_  == Place(End(text), rodata_size)
      dynamic_ == [Place(Paged(End(rodata_)), DYNAMIC_AMOUNT * Dyn) EXCEPT
                     !.vaddr = Paged(virt_adr + Paged(End(rodata_)))]
      got_plt  == Place(End(dynamic_), (3 + n) * Word)
      data_    == Place(End(got_plt), flat_len(out_data))
  IN  /\ Run("layout_context", "rela_plt")
      /\ sec' = [sec EXCEPT !["rela_plt"] = rela_plt, !["plt"] = plt_, !["text"] = text,
                            !["rodata"] = rodata_, !["dynamic"] = dynamic_,
                            !["got_plt"] = got_plt, !["data"] = data_]
      /\ UNCHANGED <<asm_vars, imps, dynsym, hash, rela, plt, got, dynamic, phdr, file>>

(***************************************************************************)
(* Tables of the dynamic linker                                            *)
(***************************************************************************)
Slot(i) == sec["got_plt"].vaddr + (3 + i - 1) * Word
Stub(i) == sec["plt"].vaddr + SIZE_PLT_STAB * i

fill_rela_plt ==
  /\ Run("rela_plt", "plt")
  /\ rela' = [i \in DOMAIN imps |->
                [r_offset |-> sec["got_plt"].vaddr + (3 + i - 1) * Word,
                 sym      |-> imps[i].dynsym_offset]]
  /\ UNCHANGED <<asm_vars, sec, imps, dynsym, hash, plt, got, dynamic, phdr, file>>

(* jmp *slot; push reloc; jmp PLT 0                                        *)
StubEntry(i) == [slot |-> Slot(i), reloc |-> i - 1, back |-> sec["plt"].vaddr]

(* PLT 0 pushes one word of the GOT and jumps through the next.            *)
fill_plt ==
  /\ Run("plt", "got_plt")
  /\ plt' = [push  |-> sec["got_plt"].vaddr + 8, jump |-> sec["got_plt"].vaddr + 16,
             stubs |-> [i \in DOMAIN imps |-> StubEntry(i)]]
  /\ UNCHANGED <<asm_vars, sec, imps, dynsym, hash, rela, got, dynamic, phdr, file>>

fill_got_plt ==
  /\ Run("got_plt", "dynamic")
  /\ got' = <<sec["dynamic"].vaddr, 0, 0>> \o [i \in DOMAIN imps |-> Stub(i) + 6]
  /\ UNCHANGED <<asm_vars, sec, imps, dynsym, hash, rela, plt, dynamic, phdr, file>>

fill_dynamic ==
  /\ Run("dynamic", "symbols")
  /\ dynamic' = [hash   |-> sec["hash"].vaddr,    strtab   |-> sec["dynstr"].vaddr,
                 symtab |-> sec["dynsym"].vaddr,  strsz    |-> sec["dynstr"].size,
                 pltgot |-> sec["got_plt"].vaddr, jmprel   |-> sec["rela_plt"].vaddr,
                 pltrelsz |-> sec["rela_plt"].size]
  /\ UNCHANGED <<asm_vars, sec, imps, dynsym, hash, rela, plt, got, phdr, file>>

(***************************************************************************)
(* Displacements that wait for the places                                  *)
(***************************************************************************)
Rel32(target, fix) == target - (sec["text"].vaddr + fix.ads_offset + fix.inner_offset + 4)

(* Broken form of CallTarget: PLT 0 is taken for the first stub.           *)
CallTargetZero(fix) ==
  Stub(imps[CHOOSE i \in find_import(imps, fix.target) : TRUE].plt_idx)

CallTarget(fix) ==
  Stub(imps[CHOOSE i \in find_import(imps, fix.target) : TRUE].plt_idx + 1)

(* Broken form of AddressTarget: the section of variables is meant.        *)
AddressTargetData(i) == virt_adr + sec["data"].file_off + code[i].disp

(* Every LOCAL_VAR is an offset in the read-only data.                     *)
AddressTarget(i) == virt_adr + sec["rodata"].file_off + code[i].disp

Waiting(i, fixes, kind) ==
  {k \in DOMAIN fixes.data : fixes.data[k].index = i /\ fixes.data[k].kind = kind}

fill_symbols ==
  /\ Run("symbols", "phdr")
  /\ code' = [i \in DOMAIN code |->
       CASE Waiting(i, outside_fix, "GOT_FUNC") # {} ->
              LET fix == outside_fix.data[CHOOSE k \in Waiting(i, outside_fix, "GOT_FUNC") : TRUE]
              IN  [code[i] EXCEPT !.disp = Rel32(CallTarget(fix), fix)]
         [] Waiting(i, file_fix, "LOCAL_VAR") # {} ->
              LET fix == file_fix.data[CHOOSE k \in Waiting(i, file_fix, "LOCAL_VAR") : TRUE]
              IN  [code[i] EXCEPT !.disp = Rel32(AddressTarget(i), fix)]
         [] OTHER -> code[i]]
  /\ UNCHANGED <<stage, data_vars, ro_vars, offset, units, marks, maps,
                 sec, imps, dynsym, hash, rela, plt, got, dynamic, phdr, file>>

(***************************************************************************)
(* Headers and file                                                        *)
(***************************************************************************)
(* emit_elf_header, emit_elf_phdr                                          *)
emit_phdr ==
  /\ Run("phdr", "file")
  /\ phdr' = [entry |-> sec["text"].vaddr,
              rx |-> [off |-> 0, vaddr |-> virt_adr, size |-> End(sec["rodata"])],
              rw |-> [off   |-> sec["dynamic"].file_off, vaddr |-> sec["dynamic"].vaddr,
                      size  |-> End(sec["data"]) - sec["dynamic"].file_off]]
  /\ UNCHANGED <<asm_vars, sec, imps, dynsym, hash, rela, plt, got, dynamic, file>>

Headers == Ehdr + PHDR_AMOUNT * Phdr
ReadOnly == <<"interp", "hash", "dynsym", "dynstr", "rela_plt", "plt", "text", "rodata">>

ReadWrite == <<"dynamic", "got_plt", "data">>

(* What fwrite puts one after another from a position on.                  *)
Written(names, from) ==
  [i \in DOMAIN names |->
     [name |-> names[i],
      at   |-> from + Sums([k \in DOMAIN names |-> sec[names[k]].size])[i - 1]]]

(* Zeros fill the gap up to the dynamic section.                           *)
write_to_file ==
  /\ Run("file", "end")
  /\ file' = Written(ReadOnly, Headers) \o Written(ReadWrite, sec["dynamic"].file_off)
  /\ UNCHANGED <<asm_vars, sec, imps, dynsym, hash, rela, plt, got, dynamic, phdr>>

ElfInit ==
  /\ Init
  /\ step = "interp" /\ sec = [s \in Sections |-> Unset]
  /\ imps = <<>> /\ dynsym = <<>> /\ hash = NoSymbols /\ rela = <<>>
  /\ plt = [push |-> 0, jump |-> 0, stubs |-> <<>>] /\ got = <<>>
  /\ dynamic = [hash |-> 0, strtab |-> 0, symtab |-> 0, strsz |-> 0, pltgot |-> 0,
                jmprel |-> 0, pltrelsz |-> 0]
  /\ phdr = [entry |-> 0, rx |-> [off |-> 0, vaddr |-> 0, size |-> 0],
             rw |-> [off |-> 0, vaddr |-> 0, size |-> 0]]
  /\ file = <<>>

ElfNext ==
  \/ Next /\ UNCHANGED elf_vars
  \/ fill_interp \/ fill_import_symbol \/ fill_hash \/ fill_layout_context
  \/ fill_rela_plt \/ fill_plt \/ fill_got_plt \/ fill_dynamic \/ fill_symbols
  \/ emit_phdr \/ write_to_file

ElfSpec == ElfInit /\ [][ElfNext]_<<vars, elf_vars>>

-----------------------------------------------------------------------------
(***************************************************************************)
(* Properties                                                              *)
(***************************************************************************)
(* Where the bytes of a section were written, and where the kernel, which  *)
(* knows nothing but the two segments of the headers, puts them.           *)
Position(s) == file[CHOOSE k \in DOMAIN file : file[k].name = s].at
Inside(seg, s) == seg.off <= Position(s) /\ Position(s) + sec[s].size <= seg.off + seg.size
Loaded(s) ==
  LET seg == IF Inside(phdr.rx, s) THEN phdr.rx ELSE phdr.rw
  IN  seg.vaddr + Position(s) - seg.off

Finished == step = "end"

(* The kernel maps whole pages: what is executed and what is written share *)
(* none, also when the read-only part ends exactly at a page, and the      *)
(* offset and address of a segment agree within the page.                  *)
PagesApart ==
  /\ (phdr.rx.vaddr + phdr.rx.size - 1) \div PAGE_SIZE < phdr.rw.vaddr \div PAGE_SIZE
  /\ \A seg \in {phdr.rx, phdr.rw} : seg.vaddr % PAGE_SIZE = seg.off % PAGE_SIZE

(* Every section is written where its header says, is loaded where the     *)
(* tables refer to it, and overlaps no other section: the places were      *)
(* computed in another order, before some of the contents existed; and no  *)
(* page is both executed and written.                                      *)
PlacesHold ==
  Finished =>
    /\ PagesApart
    /\ \A s \in Sections :
         /\ Position(s) = sec[s].file_off
         /\ s \in {ReadOnly[k] : k \in DOMAIN ReadOnly} => Inside(phdr.rx, s)
         /\ s \in {"dynamic", "got_plt", "data"} => Inside(phdr.rw, s)
         /\ Loaded(s) = sec[s].vaddr
         /\ \A t \in Sections \ {s} : \/ Position(s) + sec[s].size <= Position(t)
                                      \/ Position(t) + sec[t].size <= Position(s)

(* A call of an imported function lands on a PLT stub that jumps through a *)
(* word of the GOT which the relocations bind to the symbol of that name.  *)
CallsReachSymbols ==
  \A i \in DOMAIN code : code[i].kind = "import" =>
    \E k \in DOMAIN imps, r \in DOMAIN rela :
      /\ Loaded("text") + After(i) + code[i].disp = Loaded("plt") + SIZE_PLT_STAB * k
      /\ plt.stubs[k].slot = rela[r].r_offset
      /\ dynsym[rela[r].sym] = code[i].ref

(* Lazy binding: until it is bound, the word a stub jumps through leads to *)
(* the push behind that jump, the index pushed is that of the relocation   *)
(* of the very same word, and PLT 0 finds the linker's two words.          *)
LazyBinding ==
  /\ plt.push = Loaded("got_plt") + Word /\ plt.jump = Loaded("got_plt") + 2 * Word
  /\ dynamic.pltgot = Loaded("got_plt") /\ got[1] = Loaded("dynamic")
  /\ dynamic.jmprel = Loaded("rela_plt") /\ dynamic.pltrelsz = Rela * Len(rela)
  /\ \A k \in DOMAIN imps :
       LET stub == plt.stubs[k]
           word == (stub.slot - Loaded("got_plt")) \div Word
       IN  /\ word \in 3 .. Len(got) - 1 /\ stub.slot = Loaded("got_plt") + word * Word
           /\ got[word + 1] = Loaded("plt") + SIZE_PLT_STAB * k + 6
           /\ stub.reloc + 1 \in DOMAIN rela /\ rela[stub.reloc + 1].r_offset = stub.slot
           /\ stub.back = Loaded("plt")

(* The symbols of a bucket, as the dynamic linker meets them; 0 at the end.*)
Walk(b) ==
  LET walk[n \in 0 .. Len(dynsym)] ==
        IF n = 0 THEN hash.buckets[b]
        ELSE IF walk[n - 1] = 0 THEN 0 ELSE hash.chains[walk[n - 1]]
  IN  walk

(* The chain of its bucket leads to every symbol, whatever the hash makes  *)
(* of the names.                                                           *)
HashFinds ==
  \A k \in DOMAIN dynsym : \E n \in 0 .. Len(dynsym) : Walk(Bucket(dynsym[k]))[n] = k

(* The process starts in main, and imported functions are reached, at the  *)
(* first call through the dynamic linker, which looks their names up, and  *)
(* later on at once.                                                       *)
ImportsLand ==
  Finished =>
    /\ phdr.entry = Loaded("text") + Address(units[1].first) /\ units[1].name = start
    /\ CallsReachSymbols /\ LazyBinding /\ HashFinds

(* The address of a literal is that of its bytes in memory.                *)
AddressesLand ==
  Finished =>
    \A i \in DOMAIN code : code[i].kind = "address" =>
      \E r \in DOMAIN rodata :
        /\ rodata[r].name = code[i].ref
        /\ Loaded("text") + After(i) + code[i].disp = Loaded("rodata") + rodata[r].at
=============================================================================
