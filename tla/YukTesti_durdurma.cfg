\* One run that changes its target, one stop job, one fault, one press of Stop or Re-read.
SPECIFICATION Spec
CONSTANTS
    r1 = r1
    r2 = r2
    t1 = t1
    m1 = m1
    d1 = d1
    G = G
    Yok = Yok
    Deneme = {r1}
    Durdurma = {d1}
    Kosu = {r1}
    Serbest = {}
    SunucuAyar = {r1}
    Global = G
    Hedef <- TekHedef
    YukMakinesi <- TekMakine
    KilitSuresi = 2
    SablonZamanAsimi = 1
    Uzatma = 2
    YarimGun = 1
    OKUMA_DENEME_SINIRI = 1
    EnCokAriza = 1
    EnCokBasma = 1
INVARIANTS TypeOK
PROPERTIES KilitTutulur KapaliSatirAcilmaz
