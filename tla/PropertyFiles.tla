---------------------------- MODULE PropertyFiles ----------------------------
(***************************************************************************)
(* PropertyFilesService over StorageService: the files of one property on  *)
(* disk, and the lists of the Property document that name them.  A handler *)
(* reads a list, works on the files, and writes the whole list back.       *)
(***************************************************************************)
EXTENDS Peticiones, Sequences, SequencesExt

CONSTANT MaxArchivos  \* bound: files that will be stored; uuid gives them the names 1, 2...

VARIABLES
  lista,    \* [Tipos -> Seq([n, portada])]: imagenes, planos, documentos_digitales
  satelite, \* imagen_satelital: [n, calibrada]
  disco,    \* files on disk
  dados,    \* history: names already given, 1 .. dados
  sueltos   \* history: images that a reordering left out of the list

archivosVars == <<lista, satelite, disco, dados, sueltos>>

Tipos == {"imagenes", "planos", "documentos"}
SinArchivo == 0
SinSatelite == [n |-> SinArchivo, calibrada |-> FALSE]
Nombres(s) == {s[i].n : i \in DOMAIN s}

InitArchivos ==
  /\ lista = [t \in Tipos |-> <<>>]
  /\ satelite = SinSatelite
  /\ disco = {} /\ dados = 0 /\ sueltos = {}

----------------------------------------------------------------------------
(* uploadImages, uploadPlanos, uploadDocuments: k files, one after another. *)
Upload(r, t, k) ==
  /\ Comenzar(r, [paso |-> "procesar", t |-> t, copia |-> lista[t], faltan |-> k])
  /\ UNCHANGED archivosVars

(* Mutant: the first file of every upload becomes the cover.                *)
EntradaSiempreTapa(t, copia, n) ==
  [n |-> n, portada |-> t = "imagenes" /\ Nombres(copia) \subseteq Nombres(lista[t])]

(* Only the first image of an empty list becomes the cover.                 *)
Entrada(t, copia, n) == [n |-> n, portada |-> t = "imagenes" /\ copia = <<>>]

(* A file is stored under a new name.                                       *)
Guardar ==
  /\ dados < MaxArchivos
  /\ dados' = dados + 1
  /\ disco' = disco \cup {dados'}

(* processAndSaveImage, saveDocument.                                       *)
ProcesarArchivo(r) ==
  LET q == op[r]
  IN  /\ q.paso = "procesar" /\ q.faltan > 0
      /\ Guardar
      /\ Seguir(r, [q EXCEPT !.copia = Append(@, Entrada(q.t, q.copia, dados')), !.faltan = @ - 1])
      /\ UNCHANGED <<lista, satelite, sueltos>>

(* findByIdAndUpdate with the whole list.                                   *)
EscribirLista(r) ==
  LET q == op[r]
  IN  /\ q.paso = "escribir" \/ (q.paso = "procesar" /\ q.faltan = 0)
      /\ lista' = [lista EXCEPT ![q.t] = q.copia]
      /\ sueltos' = IF q.paso = "escribir" /\ q.reordena
                    THEN sueltos \cup (Nombres(lista[q.t]) \ Nombres(q.copia)) ELSE sueltos
      /\ Terminar(r)
      /\ UNCHANGED <<satelite, disco, dados>>

Escritura(t, copia, reordena) ==
  [paso |-> "escribir", t |-> t, copia |-> copia, reordena |-> reordena]

(* deleteImage, deletePlano, deleteDocument: the file first.  A list names  *)
(* a file once.                                                             *)
DeleteFile(r, t, n) ==
  /\ \E i \in DOMAIN lista[t] :
       /\ lista[t][i].n = n
       /\ Comenzar(r, [paso |-> "eliminar", t |-> t, n |-> n, copia |-> RemoveAt(lista[t], i)])
  /\ UNCHANGED archivosVars

(* unlink: a missing image is ignored, a missing document is an error.      *)
Unlink(r) ==
  LET q == op[r]
  IN  /\ q.paso = "eliminar"
      /\ disco' = disco \ {q.n}
      /\ IF q.t = "documentos" /\ q.n \notin disco THEN Terminar(r)
         ELSE Seguir(r, Escritura(q.t, q.copia, FALSE))
      /\ UNCHANGED <<lista, satelite, dados, sueltos>>

(* reorderImages: an image that the request does not name is dropped.  The  *)
(* names that the list does not have are ignored: orden is what is left.    *)
ReorderImages(r, orden) ==
  LET entrada(n) == CHOOSE e \in Range(lista["imagenes"]) : e.n = n
  IN  /\ Range(orden) \subseteq Nombres(lista["imagenes"])
      /\ Comenzar(r, Escritura("imagenes", [i \in DOMAIN orden |-> entrada(orden[i])], TRUE))
      /\ UNCHANGED archivosVars

SetImageAsPortada(r, n) ==
  LET s == lista["imagenes"]
  IN  /\ n \in Nombres(s)
      /\ Comenzar(r, Escritura("imagenes",
                               [i \in DOMAIN s |-> [n |-> s[i].n, portada |-> s[i].n = n]], FALSE))
      /\ UNCHANGED archivosVars

----------------------------------------------------------------------------
(* uploadSatelliteImage: the old file, the new file, the document.          *)
UploadSatelliteImage(r) ==
  /\ Comenzar(r, [paso |-> "quitarSatelite", n |-> satelite.n])
  /\ UNCHANGED archivosVars

QuitarSatelite(r) ==
  /\ op[r].paso = "quitarSatelite"
  /\ disco' = disco \ {op[r].n}
  /\ Seguir(r, [paso |-> "guardarSatelite"])
  /\ UNCHANGED <<lista, satelite, dados, sueltos>>

GuardarSatelite(r) ==
  /\ op[r].paso = "guardarSatelite"
  /\ Guardar
  /\ Seguir(r, [paso |-> "escribirSatelite", s |-> [n |-> dados', calibrada |-> FALSE]])
  /\ UNCHANGED <<lista, satelite, sueltos>>

(* calibrateSatelliteImage: of the image as it was read.                    *)
CalibrateSatelliteImage(r) ==
  /\ satelite # SinSatelite
  /\ Comenzar(r, [paso |-> "escribirSatelite", s |-> [satelite EXCEPT !.calibrada = TRUE]])
  /\ UNCHANGED archivosVars

EscribirSatelite(r) ==
  /\ op[r].paso = "escribirSatelite"
  /\ satelite' = op[r].s
  /\ Terminar(r)
  /\ UNCHANGED <<lista, disco, dados, sueltos>>

(* The process dies, or sharp, a write or an unlink throws.                 *)
MuerteArchivos(r) == Morir(r) /\ UNCHANGED archivosVars

NextArchivos ==
  \E r \in Requests :
    \/ \E t \in Tipos : \/ \E k \in 1 .. 2 : Upload(r, t, k)
                        \/ \E n \in 1 .. dados : DeleteFile(r, t, n)
    \/ \E S \in SUBSET (1 .. dados) : \E orden \in SetToSeqs(S) : ReorderImages(r, orden)
    \/ \E n \in 1 .. dados : SetImageAsPortada(r, n)
    \/ UploadSatelliteImage(r) \/ QuitarSatelite(r) \/ GuardarSatelite(r)
    \/ CalibrateSatelliteImage(r) \/ EscribirSatelite(r)
    \/ ProcesarArchivo(r) \/ EscribirLista(r) \/ Unlink(r) \/ MuerteArchivos(r)

----------------------------------------------------------------------------
(* Properties.                                                              *)

(* At most one image is the cover, whatever requests interleave; and until  *)
(* two overlap or one dies, between requests the document and the disk      *)
(* agree: every file it names exists, is named once, and nothing else is    *)
(* stored but the images that a reordering left out.                        *)
Nombrados == (UNION {Nombres(lista[t]) : t \in Tipos}) \cup ({satelite.n} \ {SinArchivo})
ArchivosEnDisco ==
  /\ Cardinality({i \in DOMAIN lista["imagenes"] : lista["imagenes"][i].portada}) <= 1
  /\ ~ solape /\ muertes = 0 /\ EnCurso = {} =>
       /\ Nombrados \subseteq disco /\ disco \subseteq Nombrados \cup sueltos
       /\ \A t \in Tipos : Cardinality(Nombres(lista[t])) = Len(lista[t])
=============================================================================
