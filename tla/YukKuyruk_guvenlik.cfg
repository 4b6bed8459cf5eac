\* Two processes and one item with up to three runs, one fault, two external events, two presses.
SPECIFICATION Spec
CONSTANTS
    p1 = p1
    p2 = p2
    o1 = o1
    o2 = o2
    Yok = Yok
    Surec = {p1, p2}
    Oge = {o1}
    EnCokKosu = 3
    GECICI_DENEME_SINIRI = 2
    ADIM_SINIRI = 1
    KUYRUK_HATA_SINIRI = 1
    EnCokAriza = 1
    EnCokOlay = 2
    EnCokBasma = 2
SYMMETRY Simetri
INVARIANTS TypeOK CiftBaslatmaYok IsIzlenir GovdeAyni DinlenmeKilitsiz IzlenenSilinmez DenemeSiniri
CHECK_DEADLOCK FALSE
